---- MODULE Spec2Model ----
(***************************************************************************)
(* The ReTI emulator 'emreti' (src/emreti.c, the 'main' that starts at     *)
(* line 588) as a state machine.                                           *)
(*                                                                         *)
(* A ReTI word is the C type 'unsigned' (32 bits).  TLC's integers are     *)
(* 32-bit signed, so a word is kept as the pair <<hi, lo>> of its two      *)
(* 16-bit halves: the word 0xa02765bb is <<41031, 26043>>.  A 'size_t'     *)
(* (shadow.data, which can be 2^32) is the same pair with hi up to 65536.  *)
(***************************************************************************)
EXTENDS Integers, Sequences, FiniteSets, TLC

Half == 2 ^ 16

\* The word of a number below 2^31.
ToWord(n) == <<n \div Half, n % Half>>

Hi(w) == w[1]

Lo(w) == w[2]

Zero == <<0, 0>>

\* Unsigned comparison of two words (or size_t values).
Less(a, b) == Hi(a) < Hi(b) \/ (Hi(a) = Hi(b) /\ Lo(a) < Lo(b))

GreaterEqual(a, b) == ~Less(a, b)

\* C's '+' and '-' on 'unsigned': the result is reduced modulo 2^32.
\* The sum at the width of 'size_t', not reduced to 32 bits.
Add32_wide(a, b) ==
  LET lo == Lo(a) + Lo(b)
  IN  <<Hi(a) + Hi(b) + (lo \div Half), lo % Half>>

Add32(a, b) ==
  LET lo == Lo(a) + Lo(b)
      hi == Hi(a) + Hi(b) + (lo \div Half)
  IN  <<hi % Half, lo % Half>>

Sub32(a, b) ==
  LET lo == Half + Lo(a) - Lo(b)
      hi == Half + Hi(a) - Hi(b) - (IF lo < Half THEN 1 ELSE 0)
  IN  <<hi % Half, lo % Half>>

\* '1 + (size_t)address': no reduction, the sum of 0xffffffff and 1 is 2^32.
SuccSize(a) == IF Lo(a) = Half - 1 THEN <<Hi(a) + 1, 0>> ELSE <<Hi(a), Lo(a) + 1>>

\* C's '&', '|' and '^' on the bits of two numbers.
RECURSIVE BitAnd(_, _)
BitAnd(a, b) ==
  IF a = 0 \/ b = 0 THEN 0
  ELSE (a % 2) * (b % 2) + 2 * BitAnd(a \div 2, b \div 2)

RECURSIVE BitOr(_, _)
BitOr(a, b) ==
  IF a = 0 THEN b
  ELSE IF b = 0 THEN a
  ELSE (IF a % 2 = 1 \/ b % 2 = 1 THEN 1 ELSE 0) + 2 * BitOr(a \div 2, b \div 2)

RECURSIVE BitXor(_, _)
BitXor(a, b) ==
  IF a = 0 THEN b
  ELSE IF b = 0 THEN a
  ELSE (((a % 2) + (b % 2)) % 2) + 2 * BitXor(a \div 2, b \div 2)

And32(a, b) == <<BitAnd(Hi(a), Hi(b)), BitAnd(Lo(a), Lo(b))>>

Or32_as_and(a, b) == <<BitAnd(Hi(a), Hi(b)), BitAnd(Lo(a), Lo(b))>>

Or32(a, b) == <<BitOr(Hi(a), Hi(b)), BitOr(Lo(a), Lo(b))>>

Xor32_as_and(a, b) == <<BitAnd(Hi(a), Hi(b)), BitAnd(Lo(a), Lo(b))>>

Xor32(a, b) == <<BitXor(Hi(a), Hi(b)), BitXor(Lo(a), Lo(b))>>

\* '(int)x > 0', '(int)x == 0', '(int)x < 0': bit 31 is the sign.
IntNegative(x) == Hi(x) >= 32768

IntZero(x) == x = Zero

IntPositive(x) == ~IntNegative(x) /\ ~IntZero(x)

(***************************************************************************)
(* The fields of an instruction word I (lines 780-792).                    *)
(***************************************************************************)
I31to30(I) == Hi(I) \div 16384

I31to28(I) == Hi(I) \div 4096

I31to27_typo(I) == Hi(I) \div 4096

I31to27(I) == Hi(I) \div 2048

I31to26(I) == Hi(I) \div 1024

I27to26(I) == (Hi(I) \div 1024) % 4

I25to24(I) == (Hi(I) \div 256) % 4

I23toI0(I) == <<Hi(I) % 256, Lo(I)>>

unsigned_immediate(I) == I23toI0(I)

immediate_sign_bit(I) == (Hi(I23toI0(I)) \div 128) % 2

immediate_extension_none(I) == Zero

immediate_extension(I) == IF immediate_sign_bit(I) = 1 THEN <<65280, 0>> ELSE Zero

signed_immediate(I) == Or32(immediate_extension(I), unsigned_immediate(I))

RegisterSymbol(code) ==
  CASE code = 0 -> "PC"
    [] code = 1 -> "IN1"
    [] code = 2 -> "IN2"
    [] code = 3 -> "ACC"

S_symbol(I) == RegisterSymbol(I27to26(I))

\* An emulator that takes bits 27..26 for the destination.
D_symbol_of_source(I) == RegisterSymbol(I27to26(I))

D_symbol(I) == RegisterSymbol(I25to24(I))

(***************************************************************************)
(* The nested switches of the decoder (lines 872-1095).  instruction(I) is *)
(* the case of the switch that I selects, named by its mnemonic, or "none" *)
(* when no case matches (the switches have no default).                    *)
(***************************************************************************)
LoadInstruction(I) ==
  CASE I31to28(I) = 4 -> "LOAD"
    [] I31to28(I) = 5 -> "LOADIN1"
    [] I31to28(I) = 6 -> "LOADIN2"
    [] I31to28(I) = 7 -> "LOADI"
    [] OTHER -> "none"

StoreInstruction(I) ==
  CASE I31to28(I) = 8 -> "STORE"
    [] I31to28(I) = 9 -> "STOREIN1"
    [] I31to28(I) = 10 -> "STOREIN2"
    [] I31to28(I) = 11 -> "MOVE"
    [] OTHER -> "none"

ComputeInstruction(I) ==
  CASE I31to26(I) = 2 -> "SUBI"
    [] I31to26(I) = 3 -> "ADDI"
    [] I31to26(I) = 4 -> "OPLUSI"
    [] I31to26(I) = 5 -> "ORI"
    [] I31to26(I) = 6 -> "ANDI"
    [] I31to26(I) = 10 -> "SUB"
    [] I31to26(I) = 11 -> "ADD"
    [] I31to26(I) = 12 -> "OPLUS"
    [] I31to26(I) = 13 -> "OR"
    [] I31to26(I) = 14 -> "AND"
    [] OTHER -> "none"

JumpInstruction(I) ==
  CASE I31to27(I) = 24 -> "NOP"
    [] I31to27(I) = 25 -> "JUMP>"
    [] I31to27(I) = 26 -> "JUMP="
    [] I31to27(I) = 27 -> "JUMP>="
    [] I31to27(I) = 28 -> "JUMP<"
    [] I31to27(I) = 29 -> "JUMP!="
    [] I31to27(I) = 30 -> "JUMP<="
    [] I31to27(I) = 31 -> "JUMP"
    [] OTHER -> "none"

instruction(I) ==
  CASE I31to30(I) = 1 -> LoadInstruction(I)
    [] I31to30(I) = 2 -> StoreInstruction(I)
    [] I31to30(I) = 0 -> ComputeInstruction(I)
    [] I31to30(I) = 3 -> JumpInstruction(I)

MemoryReaders == {"LOAD", "LOADIN1", "LOADIN2", "SUB", "ADD", "OPLUS", "OR", "AND"}

MemoryWriters == {"STORE", "STOREIN1", "STOREIN2"}

RegisterWriters ==
  {"LOAD", "LOADIN1", "LOADIN2", "LOADI", "MOVE", "SUBI", "ADDI", "OPLUSI",
   "ORI", "ANDI", "SUB", "ADD", "OPLUS", "OR", "AND"}

M_read(I) == instruction(I) \in MemoryReaders

M_write(I) == instruction(I) \in MemoryWriters

\* An emulator whose stores set D_write as well.
D_write_also_stores(I) == instruction(I) \in RegisterWriters \cup MemoryWriters

D_write(I) == instruction(I) \in RegisterWriters

\* An emulator that adds no index register to the immediate.
address_absolute(I, IN1, IN2) == unsigned_immediate(I)

\* 'address': where the instruction reads or writes memory (0 if it does not).
address(I, IN1, IN2) ==
  CASE instruction(I) \in {"LOAD", "STORE", "SUB", "ADD", "OPLUS", "OR", "AND"}
         -> unsigned_immediate(I)
    [] instruction(I) \in {"LOADIN1", "STOREIN1"} -> Add32(IN1, unsigned_immediate(I))
    [] instruction(I) \in {"LOADIN2", "STOREIN2"} -> Add32(IN2, unsigned_immediate(I))
    [] OTHER -> Zero

\* 'result': the value written to the register D or to memory (0 if none).
\* S and D are the contents of the source and destination registers, loaded
\* is M[address].
result(I, S, D, ACC, loaded) ==
  CASE instruction(I) \in {"LOAD", "LOADIN1", "LOADIN2"} -> loaded
    [] instruction(I) = "LOADI" -> unsigned_immediate(I)
    [] instruction(I) \in MemoryWriters -> ACC
    [] instruction(I) = "MOVE" -> S
    [] instruction(I) = "SUBI" -> Sub32(D, signed_immediate(I))
    [] instruction(I) = "ADDI" -> Add32(D, signed_immediate(I))
    [] instruction(I) = "OPLUSI" -> Xor32(D, unsigned_immediate(I))
    [] instruction(I) = "ORI" -> Or32(D, unsigned_immediate(I))
    [] instruction(I) = "ANDI" -> And32(D, unsigned_immediate(I))
    [] instruction(I) = "SUB" -> Sub32(D, loaded)
    [] instruction(I) = "ADD" -> Add32(D, loaded)
    [] instruction(I) = "OPLUS" -> Xor32(D, loaded)
    [] instruction(I) = "OR" -> Or32(D, loaded)
    [] instruction(I) = "AND" -> And32(D, loaded)
    [] OTHER -> Zero

\* 'taken': the comparison of (int)ACC with 0 that the jump names.
taken(I, ACC) ==
  CASE instruction(I) = "JUMP>" -> IntPositive(ACC)
    [] instruction(I) = "JUMP=" -> IntZero(ACC)
    [] instruction(I) = "JUMP>=" -> ~IntNegative(ACC)
    [] instruction(I) = "JUMP<" -> IntNegative(ACC)
    [] instruction(I) = "JUMP!=" -> ~IntZero(ACC)
    [] instruction(I) = "JUMP<=" -> ~IntPositive(ACC)
    [] instruction(I) = "JUMP" -> TRUE
    [] OTHER -> FALSE

\* An emulator that does not look at the destination register.
PC_next_sequential(I, PC, ACC, res) ==
  IF taken(I, ACC) THEN Add32(PC, signed_immediate(I)) ELSE Add32(PC, <<0, 1>>)

\* 'PC_next' as the loop leaves it at line 1150: PC + 1 by default, the jump
\* target when the jump is taken, the result when the destination is PC.
PC_next(I, PC, ACC, res) ==
  IF D_write(I) /\ D_symbol(I) = "PC" THEN res
  ELSE IF taken(I, ACC) THEN Add32(PC, signed_immediate(I))
  ELSE Add32(PC, <<0, 1>>)

(***************************************************************************)
(* The emulator's state.                                                   *)
(***************************************************************************)
VARIABLES
  arg,        \* the command-line option given ("" if none)
  code_file,  \* the words of the code file
  data_file,  \* the words of the data file
  pc,         \* where main is: "start", "run", "halted", "exit" or "error"
  reti,       \* the struct 'reti': code, data, PC, ACC, IN1, IN2
  shadow,     \* the struct 'shadow': valid, code, data
  steps,      \* the iterations of the emulation loop executed
  row,        \* PC, IN1, IN2, ACC and I of the last iteration (line 1103)
  stored,     \* history: the last value each address was stored to
  stderr,     \* the diagnostics written, in order
  stdout      \* the lines of the final dump

(***************************************************************************)
(* The state of the other tools: the assembler 'asreti' and the            *)
(* disassembler 'disreti', run one after the other on the output of the    *)
(* one before as in the pipes of the README.                               *)
(***************************************************************************)
VARIABLES
  revision,       \* the assembler source that was built: "asreti.c" or "part_002"
  NDEBUG,         \* built by 'configure' (-DNDEBUG) or by 'configure -g'
  tool,           \* the tool that runs: "asreti", "disreti", "emreti" or "none"
  input,          \* what the tool reads: characters (asreti) or bytes (disreti)
  offset,         \* how much of the input the tool has read
  lineno,         \* asreti: 'lineno'
  last_read_char, \* asreti: 'last_read_char'
  output,         \* what the tool has written to its output so far
  instruction_buffer, \* disreti: 'instruction', the buffer disassemble_reti_code fills
  exit,           \* "running", or how the tool ended: "0", "1" or "SIGABRT"
  diagnostic,     \* the parse error the tool ended with, <<>> if none
  piped,          \* the tools that ran before, in order: tool, input and output
  quiz            \* retiquiz: 'asked', 'answered', 'correct', 'incorrect', and 'code'

emulator == <<arg, code_file, data_file, pc, reti, shadow, steps, row, stored, stderr, stdout>>

tools ==
  <<revision, NDEBUG, tool, input, offset, lineno, last_read_char, output,
    instruction_buffer, exit, diagnostic, piped, quiz>>

vars == <<emulator, tools>>

\* Bounds of the model.
MaxSteps == 6

MaxCodeLen == 2

\* 'CAPACITY' is 2^32 words.
CAPACITY == <<65536, 0>>

\* What a word of the malloc'ed data area holds before it is written: the
\* area is never initialized, so a read of it yields some word.
Garbage == {Zero, <<43690, 43690>>}

EmptyMemory == [a \in {} |-> Zero]

NoRow == [PC |-> Zero, IN1 |-> Zero, IN2 |-> Zero, ACC |-> Zero, I |-> Zero]

\* The addresses 0 .. n-1 as words.
Addresses(n) == {ToWord(k) : k \in 0 .. n - 1}

(***************************************************************************)
(* Start: option parsing, allocation and the reading of both files (lines  *)
(* 601-717).  The only options are -h and -s; any other argument that      *)
(* starts with '-' ends the run with "invalid option".                     *)
(***************************************************************************)
InvalidOption(a) == a # "" /\ a # "-s" /\ a # "--step"

Start ==
  /\ pc = "start"
  /\ IF InvalidOption(arg)
       THEN /\ pc' = "error"
            /\ stderr' = Append(stderr, <<"error: invalid option", arg>>)
            /\ UNCHANGED <<reti, shadow>>
       ELSE /\ pc' = "run"
            /\ reti' = [reti EXCEPT
                 !.code = code_file,
                 !.data = [a \in Addresses(Len(data_file)) |-> data_file[Lo(a) + 1]]]
            /\ shadow' = [valid |-> Addresses(Len(data_file)),
                          code |-> Len(code_file),
                          data |-> ToWord(Len(data_file))]
            /\ UNCHANGED stderr
  /\ UNCHANGED <<arg, code_file, data_file, steps, row, stored, stdout>>
  /\ UNCHANGED tools

(***************************************************************************)
(* The head of the loop when PC is outside the code (lines 765-777).       *)
(***************************************************************************)
OutsideCode(PC, code_len) == GreaterEqual(PC, ToWord(code_len))

WarnUndefined_always(PC, code_len) == TRUE

WarnUndefined(PC, code_len) == PC # ToWord(code_len)

Stop ==
  /\ pc = "run"
  /\ OutsideCode(reti.PC, shadow.code)
  /\ pc' = "halted"
  /\ stderr' = IF WarnUndefined(reti.PC, shadow.code)
                 THEN Append(stderr, <<"warning: stopping at undefined code", reti.PC>>)
                 ELSE stderr
  /\ UNCHANGED <<arg, code_file, data_file, reti, shadow, steps, row, stored, stdout>>
  /\ UNCHANGED tools

(***************************************************************************)
(* One iteration of the loop that executes an instruction (lines 778-1153).*)
(***************************************************************************)
\* The words 'M[address]' can yield.
Loaded(I, a) ==
  IF ~M_read(I) THEN {Zero}
  ELSE IF a \in DOMAIN reti.data THEN {reti.data[a]}
  ELSE Garbage

\* The test of line 1113.
Uninitialized(a, data_hi, valid) == GreaterEqual(a, data_hi) \/ a \notin valid

\* Lines 1139-1143: the written address becomes valid.
RaisedData_unguarded(a, data_hi, valid) ==
  IF a \notin valid THEN SuccSize(a) ELSE data_hi

RaisedData_never(a, data_hi, valid) == data_hi

\* The bound set to the written address itself.
RaisedData_at_address(a, data_hi, valid) ==
  IF a \notin valid /\ GreaterEqual(a, data_hi) THEN a ELSE data_hi

RaisedData(a, data_hi, valid) ==
  IF a \notin valid /\ GreaterEqual(a, data_hi) THEN SuccSize(a) ELSE data_hi

\* Line 1152: stuck in an infinite loop.
SelfLoop_never(next, PC) == FALSE

SelfLoop(next, PC) == next = PC

Write(f, a, v) == [x \in DOMAIN f \cup {a} |-> IF x = a THEN v ELSE f[x]]

Step ==
  /\ pc = "run"
  /\ steps < MaxSteps
  /\ ~OutsideCode(reti.PC, shadow.code)
  /\ LET PC == reti.PC
         IN1 == reti.IN1
         IN2 == reti.IN2
         ACC == reti.ACC
         I == reti.code[Lo(PC) + 1]
         a == address(I, IN1, IN2)
     IN  \E loaded \in Loaded(I, a) :
           LET res == result(I, reti[S_symbol(I)], reti[D_symbol(I)], ACC, loaded)
               next == PC_next(I, PC, ACC, res)
               written == IF D_write(I) THEN [reti EXCEPT ![D_symbol(I)] = res]
                          ELSE reti
               memory == IF M_read(I) THEN Write(reti.data, a, loaded)
                         ELSE IF M_write(I) THEN Write(reti.data, a, res)
                         ELSE reti.data
           IN  /\ steps' = steps + 1
               /\ row' = [PC |-> PC, IN1 |-> IN1, IN2 |-> IN2, ACC |-> ACC, I |-> I]
               /\ IF M_write(I) /\ GreaterEqual(a, CAPACITY)
                    THEN /\ pc' = "error"
                         /\ stderr' = Append(stderr, <<"error: can not write", a>>)
                         /\ UNCHANGED <<reti, shadow, stored>>
                    ELSE /\ stderr' =
                              IF M_read(I) /\ Uninitialized(a, shadow.data, shadow.valid)
                                THEN Append(stderr, <<"warning: read uninitialized", a>>)
                                ELSE stderr
                         /\ reti' = [written EXCEPT !.data = memory, !.PC = next]
                         /\ shadow' =
                              IF M_write(I)
                                THEN [shadow EXCEPT
                                        !.valid = @ \cup {a},
                                        !.data = RaisedData(a, shadow.data, shadow.valid)]
                                ELSE shadow
                         /\ stored' = IF M_write(I) THEN Write(stored, a, res) ELSE stored
                         /\ pc' = IF SelfLoop(next, PC) THEN "halted" ELSE "run"
  /\ UNCHANGED <<arg, code_file, data_file, stdout>>
  /\ UNCHANGED tools

(***************************************************************************)
(* The final dump (lines 1161-1178): one line per valid address below      *)
(* shadow.data, in ascending order.                                        *)
(***************************************************************************)
Least(S) == CHOOSE a \in S : \A b \in S : ~Less(b, a)

RECURSIVE Ascending(_)
Ascending(S) == IF S = {} THEN <<>> ELSE <<Least(S)>> \o Ascending(S \ {Least(S)})

DumpLines(data, data_hi, valid) ==
  LET printed == Ascending({a \in valid : Less(a, data_hi)})
  IN  [k \in 1 .. Len(printed) |-> <<printed[k], data[printed[k]]>>]

Dump ==
  /\ pc = "halted"
  /\ stdout' = DumpLines(reti.data, shadow.data, shadow.valid)
  /\ pc' = "exit"
  /\ UNCHANGED <<arg, code_file, data_file, reti, shadow, steps, row, stored, stderr>>
  /\ UNCHANGED tools

(***************************************************************************)
(* The inputs the model runs the emulator on.                              *)
(***************************************************************************)
\* Every opcode prefix (bits 31..26) with every D (bits 25..24) and a few
\* immediates: 0, 1, 3, 0x800000 and 0xffffff.
Immediates == {<<0, 0>>, <<0, 1>>, <<0, 3>>, <<128, 0>>, <<255, 65535>>}

TestWords ==
  {<<p * 1024 + d * 256 + Hi(i), Lo(i)>> : p \in 0 .. 63, d \in 0 .. 3, i \in Immediates}

\* LOAD IN1 0; LOAD IN2 1; LOAD ACC 2: the registers are set from the data file.
Prologue == <<<<16640, 0>>, <<16896, 1>>, <<17152, 2>>>>

IndexValues == {<<<<0, 1>>, <<65535, 65535>>>>, <<<<32768, 0>>, <<0, 0>>>>}

AccValues == {<<0, 0>>, <<0, 1>>, <<32767, 65535>>, <<32768, 0>>, <<65535, 65535>>}

OneInstruction ==
  {<<Prologue \o <<I>>, <<x[1], x[2], acc>>>> :
     I \in TestWords, x \in IndexValues, acc \in AccValues}

\* Short programs over a few instructions: STORE 0, STORE 1, STOREIN1 2,
\* LOADI ACC 5, LOADI IN1 1, LOAD ACC 0, ADD ACC 1, SUBI ACC 1, JUMP -1,
\* JUMP> -1, LOADI PC 0, MOVE PC PC.
BaseWords ==
  {<<32768, 0>>, <<32768, 1>>, <<36864, 2>>, <<29440, 5>>, <<28928, 1>>, <<17152, 0>>,
   <<12032, 1>>, <<2816, 1>>, <<63743, 65535>>, <<51455, 65535>>, <<28672, 0>>, <<45056, 0>>}

ShortPrograms ==
  {<<c, d>> : c \in UNION {[1 .. n -> BaseWords] : n \in 0 .. MaxCodeLen},
              d \in {<<>>, <<<<0, 7>>>>}}

\* The program of the README (lines 24-27), JUMP 0 alone (as 0xfc000000 and
\* as 0xf8000000), the word 0 alone, and JUMP= 2 at address 5.
ReadmeCode == <<<<40999, 26043>>, <<37093, 57855>>, <<5052, 17029>>, <<41013, 47987>>>>

JumpAtFive == <<<<17152, 0>>, <<63488, 4>>, <<49152, 0>>, <<49152, 0>>, <<49152, 0>>, <<53248, 2>>>>

Scenarios ==
  {<<ReadmeCode, <<>>>>, <<<<<<64512, 0>>>>, <<>>>>, <<<<<<63488, 0>>>>, <<>>>>,
   <<<<Zero>>, <<>>>>, <<JumpAtFive, <<<<0, 0>>>>>>, <<JumpAtFive, <<<<0, 1>>>>>>}

Inputs == OneInstruction \cup ShortPrograms \cup Scenarios

\* The command lines: no option, an option for one of the two knobs, or an
\* option for a maximum step count.
Args == {"", "--strict", "--quiet", "--limit=3"}

\* The counters of retiquiz as they are initialised.
NoQuiz == [asked |-> 0, answered |-> 0, correct |-> 0, incorrect |-> 0, code |-> <<0, 0>>]

\* No other tool runs.
NoTool ==
  /\ revision = "asreti.c"
  /\ NDEBUG = TRUE
  /\ tool = "none"
  /\ input = <<>>
  /\ offset = 0
  /\ lineno = 1
  /\ last_read_char = "none"
  /\ output = <<>>
  /\ instruction_buffer = <<>>
  /\ exit = "0"
  /\ diagnostic = <<>>
  /\ piped = <<>>
  /\ quiz = NoQuiz

Init ==
  /\ arg \in Args
  /\ \E in \in (IF arg = "" THEN Inputs ELSE Scenarios \cup ShortPrograms) :
       /\ code_file = in[1]
       /\ data_file = in[2]
  /\ pc = "start"
  /\ reti = [code |-> <<>>, data |-> EmptyMemory,
             PC |-> Zero, ACC |-> Zero, IN1 |-> Zero, IN2 |-> Zero]
  /\ shadow = [valid |-> {}, code |-> 0, data |-> Zero]
  /\ steps = 0
  /\ row = NoRow
  /\ stored = EmptyMemory
  /\ stderr = <<>>
  /\ stdout = <<>>
  /\ NoTool

Next == Start \/ Stop \/ Step \/ Dump

Spec == Init /\ [][Next]_vars
(***************************************************************************)
(* The assembler 'asreti'.  The repository holds two revisions of its      *)
(* source, src/asreti.c (lines 1-569) and src/unnamed/part_002; an         *)
(* operator that takes 'rev' follows the one or the other.  A character    *)
(* is a string of one character, and what getc returns at the end of the   *)
(* file is the string "EOF".                                               *)
(***************************************************************************)
EOF == "EOF"

DecimalDigits == <<"0", "1", "2", "3", "4", "5", "6", "7", "8", "9">>

LowerHex == <<"a", "b", "c", "d", "e", "f">>

UpperHex == <<"A", "B", "C", "D", "E", "F">>

UpperCase ==
  {"A", "B", "C", "D", "E", "F", "G", "H", "I", "J", "K", "L", "M",
   "N", "O", "P", "Q", "R", "S", "T", "U", "V", "W", "X", "Y", "Z"}

LowerCase ==
  {"a", "b", "c", "d", "e", "f", "g", "h", "i", "j", "k", "l", "m",
   "n", "o", "p", "q", "r", "s", "t", "u", "v", "w", "x", "y", "z"}

Range(f) == {f[k] : k \in DOMAIN f}

IndexOf(f, c) == CHOOSE k \in DOMAIN f : f[k] = c

isdigit(ch) == ch \in Range(DecimalDigits)

\* Of the characters the model reads, all but EOF, tab, new-line and
\* carriage-return are printable.
isprint(ch) == ch \notin {EOF, "\t", "\n", "\r"}

hexdigit(ch) ==
  IF isdigit(ch) THEN IndexOf(DecimalDigits, ch) - 1
  ELSE IF ch \in Range(LowerHex) THEN 10 + (IndexOf(LowerHex, ch) - 1)
  ELSE IF ch \in Range(UpperHex) THEN 10 + (IndexOf(UpperHex, ch) - 1)
  ELSE -1

is_end_of_line_character(ch) == ch = ";" \/ ch = "\n" \/ ch = EOF

is_symbol_character(ch) ==
  \/ ch \in UpperCase
  \/ ch \in LowerCase
  \/ isdigit(ch)
  \/ ch \in {"-", "<", ">", "=", "!"}

is_parsable_character(ch) ==
  is_symbol_character(ch) \/ is_end_of_line_character(ch) \/ ch = " "

\* What the calls of read_char return, one after the other, on a file: a
\* carriage-return followed by a new-line is read as the new-line, and at
\* any other carriage-return read_char ends the run (the "\r" that ends
\* the sequence).
NoCarriageReturn(ch) == ch # "\r"

\* The places of the carriage-returns that no new-line follows.
AloneAt(file) ==
  {k \in 1 .. Len(file) : file[k] = "\r" /\ (k = Len(file) \/ file[k + 1] # "\n")}

read_char(file) ==
  IF AloneAt(file) = {} THEN SelectSeq(file, NoCarriageReturn)
  ELSE SelectSeq(SubSeq(file, 1, CHOOSE k \in AloneAt(file) : \A x \in AloneAt(file) : k <= x),
                 NoCarriageReturn) \o <<"\r">>

\* The q-th character read, EOF after the last.
Ch(s, q) == IF q \in 1 .. Len(s) THEN s[q] ELSE EOF

\* 'lineno' and 'last_read_char' after q characters were read.
LinenoAfter(s, q) == 1 + Cardinality({k \in 1 .. q : Ch(s, k) = "\n"})

LastReadAfter(s, q) == IF q = 0 THEN "none" ELSE Ch(s, q)

\* The 6-bit prefix code-words.
CODE(A, B, C, D, E, F) == <<(32 * A + 16 * B + 8 * C + 4 * D + 2 * E + F) * 1024, 0>>

LOAD == CODE(0, 1, 0, 0, 0, 0)

LOADIN1 == CODE(0, 1, 0, 1, 0, 0)

LOADIN2 == CODE(0, 1, 1, 0, 0, 0)

LOADI == CODE(0, 1, 1, 1, 0, 0)

STORE == CODE(1, 0, 0, 0, 0, 0)

STOREIN1 == CODE(1, 0, 0, 1, 0, 0)

STOREIN2 == CODE(1, 0, 1, 0, 0, 0)

MOVE == CODE(1, 0, 1, 1, 0, 0)

SUBI == CODE(0, 0, 0, 0, 1, 0)

ADDI == CODE(0, 0, 0, 0, 1, 1)

OPLUSI == CODE(0, 0, 0, 1, 0, 0)

ORI == CODE(0, 0, 0, 1, 0, 1)

ANDI == CODE(0, 0, 0, 1, 1, 0)

SUB == CODE(0, 0, 1, 0, 1, 0)

ADD == CODE(0, 0, 1, 0, 1, 1)

OPLUS == CODE(0, 0, 1, 1, 0, 0)

OR == CODE(0, 0, 1, 1, 0, 1)

AND == CODE(0, 0, 1, 1, 1, 0)

NOP == CODE(1, 1, 0, 0, 0, 0)

JUMPGT == CODE(1, 1, 0, 0, 1, 0)

JUMPEQ == CODE(1, 1, 0, 1, 0, 0)

JUMPGE == CODE(1, 1, 0, 1, 1, 0)

JUMPLT == CODE(1, 1, 1, 0, 0, 0)

JUMPNE == CODE(1, 1, 1, 0, 1, 0)

JUMPLE == CODE(1, 1, 1, 1, 0, 0)

JUMP == CODE(1, 1, 1, 1, 1, 0)

(***************************************************************************)
(* What a piece of the parser yields: q is the number of characters read   *)
(* when it is left (the last one read is the 'ch' of the code).            *)
(***************************************************************************)
Parsed(q, code) == [kind |-> "ok", pos |-> q, code |-> code, text |-> ""]

\* error(...): the parse error with this text ends the run.
Error(q, text) == [kind |-> "error", pos |-> q, code |-> Zero, text |-> text]

\* A failed assertion ends the run of a build without NDEBUG.
Aborted(q) == [kind |-> "abort", pos |-> q, code |-> Zero, text |-> ""]

\* The name of an instruction was read: its code and the flags that say
\* which of 'S', 'D' and 'i' follow.
Found(code, q, S, D, i) ==
  [kind |-> "ok", pos |-> q, code |-> code,
   parse_source |-> S, parse_destination |-> D, parse_immediate |-> i]

\* invalid_instruction() was called after q characters.
Invalid(q) ==
  [kind |-> "invalid", pos |-> q, code |-> Zero,
   parse_source |-> FALSE, parse_destination |-> FALSE, parse_immediate |-> FALSE]

\* 'for (const char *p = w; *p; p++) if (*p != read_char()) ...': 0 if the
\* characters after the q-th are those of w, else the place of the first
\* that differs.
Mismatch(s, q, w) ==
  IF \A k \in 1 .. Len(w) : Ch(s, q + k) = w[k] THEN 0
  ELSE CHOOSE k \in 1 .. Len(w) :
         /\ Ch(s, q + k) # w[k]
         /\ \A j \in 1 .. k - 1 : Ch(s, q + j) = w[j]

\* The end of a name that has a form with 'I': the q-th character is a
\* space, or an 'I' and one more character is read.
PlainOrI(s, q, plain, withI) ==
  IF Ch(s, q) = " " THEN Found(plain, q, FALSE, TRUE, TRUE)
  ELSE IF Ch(s, q) = "I" THEN Found(withI, q + 1, FALSE, TRUE, TRUE)
  ELSE Invalid(q)

\* case 'A': the q-th character is the 'A'.
Mnemonic_A(s, q) ==
  IF Ch(s, q + 1) = "D"
    THEN IF Ch(s, q + 2) = "D" THEN PlainOrI(s, q + 3, ADD, ADDI) ELSE Invalid(q + 2)
  ELSE IF Ch(s, q + 1) = "N"
    THEN IF Ch(s, q + 2) = "D" THEN PlainOrI(s, q + 3, AND, ANDI) ELSE Invalid(q + 2)
  ELSE Invalid(q + 1)

\* case 'J'.  After '<' src/asreti.c reads no character (lines 269-276).
Mnemonic_J(rev, s, q) ==
  LET m == Mismatch(s, q, <<"U", "M", "P">>)
      ch == Ch(s, q + 4)
      after == IF rev = "asreti.c" THEN q + 4 ELSE q + 5
  IN  IF m # 0 THEN Invalid(q + m)
      ELSE IF ch = " " THEN Found(JUMP, q + 4, FALSE, FALSE, TRUE)
      ELSE IF ch = ">"
        THEN IF Ch(s, q + 5) = " " THEN Found(JUMPGT, q + 5, FALSE, FALSE, TRUE)
             ELSE IF Ch(s, q + 5) = "=" THEN Found(JUMPGE, q + 6, FALSE, FALSE, TRUE)
             ELSE Invalid(q + 5)
      ELSE IF ch = "=" THEN Found(JUMPEQ, q + 5, FALSE, FALSE, TRUE)
      ELSE IF ch = "<"
        THEN IF Ch(s, after) = " " THEN Found(JUMPLT, after, FALSE, FALSE, TRUE)
             ELSE IF Ch(s, after) = "=" THEN Found(JUMPLE, after + 1, FALSE, FALSE, TRUE)
             ELSE Invalid(after)
      ELSE IF ch = "!"
        THEN IF Ch(s, q + 5) = "=" THEN Found(JUMPNE, q + 6, FALSE, FALSE, TRUE)
             ELSE Invalid(q + 5)
      ELSE Invalid(q + 4)

\* case 'L'.  After "LOADI" and a character that is no space src/asreti.c
\* reads one more character before it looks for the 'N' (lines 300-302).
Mnemonic_L(rev, s, q) ==
  LET m == Mismatch(s, q, <<"O", "A", "D">>)
      ch == Ch(s, q + 4)
      n == IF rev = "asreti.c" THEN q + 6 ELSE q + 5
  IN  IF m # 0 THEN Invalid(q + m)
      ELSE IF ch = " " THEN Found(LOAD, q + 4, FALSE, TRUE, TRUE)
      ELSE IF ch = "I"
        THEN IF Ch(s, q + 5) = " " THEN Found(LOADI, q + 5, FALSE, TRUE, TRUE)
             ELSE IF Ch(s, n) = "N"
               THEN IF Ch(s, n + 1) = "1" THEN Found(LOADIN1, n + 2, FALSE, TRUE, TRUE)
                    ELSE IF Ch(s, n + 1) = "2" THEN Found(LOADIN2, n + 2, FALSE, TRUE, TRUE)
                    ELSE Invalid(n + 1)
             ELSE Invalid(n)
      ELSE Invalid(q + 4)

\* case 'M'.
Mnemonic_M(s, q) ==
  LET m == Mismatch(s, q, <<"O", "V", "E">>)
  IN  IF m # 0 THEN Invalid(q + m) ELSE Found(MOVE, q + 4, TRUE, TRUE, FALSE)

\* case 'N'.
Mnemonic_N(s, q) ==
  LET m == Mismatch(s, q, <<"O", "P">>)
  IN  IF m # 0 THEN Invalid(q + m) ELSE Found(NOP, q + 3, FALSE, FALSE, FALSE)

\* case 'O'.
Mnemonic_O(s, q) ==
  IF Ch(s, q + 1) = "P"
    THEN LET m == Mismatch(s, q + 1, <<"L", "U", "S">>)
         IN  IF m # 0 THEN Invalid(q + 1 + m) ELSE PlainOrI(s, q + 5, OPLUS, OPLUSI)
  ELSE IF Ch(s, q + 1) = "R" THEN PlainOrI(s, q + 2, OR, ORI)
  ELSE Invalid(q + 1)

\* case 'S'.
Mnemonic_S(s, q) ==
  IF Ch(s, q + 1) = "T"
    THEN LET m == Mismatch(s, q + 1, <<"O", "R", "E">>)
             ch == Ch(s, q + 5)
         IN  IF m # 0 THEN Invalid(q + 1 + m)
             ELSE IF ch = " " THEN Found(STORE, q + 5, FALSE, FALSE, TRUE)
             ELSE IF ch = "I"
               THEN IF Ch(s, q + 6) = "N"
                      THEN IF Ch(s, q + 7) = "1"
                             THEN Found(STOREIN1, q + 8, FALSE, FALSE, TRUE)
                           ELSE IF Ch(s, q + 7) = "2"
                             THEN Found(STOREIN2, q + 8, FALSE, FALSE, TRUE)
                           ELSE Invalid(q + 7)
                    ELSE Invalid(q + 6)
             ELSE Invalid(q + 5)
  ELSE IF Ch(s, q + 1) = "U"
    THEN IF Ch(s, q + 2) = "B" THEN PlainOrI(s, q + 3, SUB, SUBI) ELSE Invalid(q + 2)
  ELSE Invalid(q + 1)

\* The cases of the switch that read the name of an instruction.
Mnemonic(rev, s, q) ==
  CASE Ch(s, q) = "A" -> Mnemonic_A(s, q)
    [] Ch(s, q) = "J" -> Mnemonic_J(rev, s, q)
    [] Ch(s, q) = "L" -> Mnemonic_L(rev, s, q)
    [] Ch(s, q) = "M" -> Mnemonic_M(s, q)
    [] Ch(s, q) = "N" -> Mnemonic_N(s, q)
    [] Ch(s, q) = "O" -> Mnemonic_O(s, q)
    [] Ch(s, q) = "S" -> Mnemonic_S(s, q)

\* invalid_instruction(): 'ch' is the character read last.  In part_002
\* the two assertions fail on a space.
invalid_instruction(rev, ndebug, ch, q) ==
  IF rev = "asreti.c" THEN Error(q, "invalid instruction")
  ELSE IF is_symbol_character(ch) THEN Error(q, "invalid instruction")
  ELSE IF is_end_of_line_character(ch) THEN Error(q, "expected space after instruction")
  ELSE IF ~ndebug /\ (ch = " " \/ is_parsable_character(ch)) THEN Aborted(q)
  ELSE IF isprint(ch) THEN Error(q, "invalid character '%c' in instruction")
  ELSE Error(q, "invalid character code '<0x%02x>' in instruction")

(***************************************************************************)
(* Registers.  Both operators are entered after q characters were read     *)
(* and yield the code of the register.                                     *)
(***************************************************************************)
\* src/asreti.c, lines 415-440 and 450-475: 'invalid' is invalid_source or
\* invalid_destination, and the last 'else' calls invalid_source in both.
Register_asreti(s, q, invalid) ==
  LET ch == Ch(s, q + 1)
      m == Mismatch(s, q + 1, <<"C", "C">>)
  IN  IF ch = "A"
        THEN IF m # 0 THEN Error(q + 1 + m, invalid) ELSE Parsed(q + 3, 3)
      ELSE IF ch = "I"
        THEN IF Ch(s, q + 2) # "N" THEN Error(q + 2, invalid)
             ELSE IF Ch(s, q + 3) = "1" THEN Parsed(q + 3, 1)
             ELSE IF Ch(s, q + 3) = "2" THEN Parsed(q + 3, 2)
             ELSE Error(q + 3, invalid)
      ELSE IF ch = "P"
        THEN IF Ch(s, q + 2) # "C" THEN Error(q + 2, invalid) ELSE Parsed(q + 2, 0)
      ELSE Error(q + 1, "invalid source register")

\* src/unnamed/part_002, parse_register: after "PC" it reads one more
\* character, which has to be a space.
parse_register(s, q, type) ==
  LET ch == Ch(s, q + 1)
  IN  IF ch = "A"
        THEN IF Ch(s, q + 2) # "C" THEN Error(q + 2, "expected 'C' after 'A'")
             ELSE IF Ch(s, q + 3) # "C" THEN Error(q + 3, "expected 'C' after \"AC\"")
             ELSE Parsed(q + 3, 3)
      ELSE IF ch = "I"
        THEN IF Ch(s, q + 2) # "N" THEN Error(q + 2, "expected 'N' after 'I'")
             ELSE IF Ch(s, q + 3) = "1" THEN Parsed(q + 3, 1)
             ELSE IF Ch(s, q + 3) = "2" THEN Parsed(q + 3, 2)
             ELSE Error(q + 3, "expected '1' or '2' after \"IN\"")
      ELSE IF ch = "P"
        THEN IF Ch(s, q + 2) # "C" THEN Error(q + 2, "expected 'C' after 'P'")
             ELSE IF Ch(s, q + 3) # " " THEN Error(q + 3, "expected space after \"PC\"")
             ELSE Parsed(q + 3, 0)
      ELSE IF ch = " " THEN Error(q + 1, "unexpected space instead of " \o type \o " register")
      ELSE IF is_end_of_line_character(ch) THEN Error(q + 1, type \o " register missing")
      ELSE Error(q + 1, "invalid " \o type \o " register")

(***************************************************************************)
(* Immediates.                                                             *)
(***************************************************************************)
\* The value of the digit ch in the base, -1 if it is none.
Digit(ch, base) == IF base = 16 THEN hexdigit(ch) ELSE IF isdigit(ch) THEN hexdigit(ch) ELSE -1

\* An assembler that leaves the digit out of the second comparison.
Exceeded_without_digit(i, digit, max_immediate, base) ==
  max_immediate \div base < i \/ max_immediate < i * base

\* 'if (max_immediate / 10 < i)' before 'i *= 10' and 'if (max_immediate -
\* digit < i)' after it; the product is formed only if the first is false.
Exceeded(i, digit, max_immediate, base) ==
  max_immediate \div base < i \/ max_immediate - digit < i * base

\* The loop over the digits: the q-th character is the one to look at and
\* i is the number read so far.
RECURSIVE Digits(_, _, _, _, _, _)
Digits(s, q, i, max_immediate, base, exceeded) ==
  LET digit == Digit(Ch(s, q), base)
  IN  IF digit < 0 THEN Parsed(q, i)
      ELSE IF Exceeded(i, digit, max_immediate, base) THEN Error(q, exceeded)
      ELSE Digits(s, q + 1, i * base + digit, max_immediate, base, exceeded)

\* The digits after the first one, which is the q-th character: part_002
\* reads hexadecimal digits after an 'x', src/asreti.c knows no 'x'.
Number(rev, s, q, max_immediate, exceeded) ==
  LET i == hexdigit(Ch(s, q))
  IN  IF rev = "part_002" /\ Ch(s, q + 1) = "x"
        THEN Digits(s, q + 2, i, max_immediate, 16, exceeded)
        ELSE Digits(s, q + 1, i, max_immediate, 10, exceeded)

\* '(~i + 1) & 0xffffff' for i <= 0x800000.
Negated(i) == ((16777215 - i) + 1) % 16777216

\* 'code |= i'
WithImmediate(code, i) == Or32(code, <<i \div Half, i % Half>>)

\* src/asreti.c, lines 487-523, entered after q characters were read.
Immediate_asreti(s, q, code) ==
  LET ch == Ch(s, q + 1)
  IN  IF ch = "-"
        THEN IF Ch(s, q + 2) = "0" \/ ~isdigit(Ch(s, q + 2))
               THEN Error(q + 2, "invalid immediate")
             ELSE LET n == Number("asreti.c", s, q + 2, 8388608, "invalid immediate")
                  IN  IF n.kind # "ok" THEN n
                      ELSE Parsed(n.pos, WithImmediate(code, Negated(n.code)))
      ELSE IF ~isdigit(ch) THEN Error(q + 1, "invalid immediate")
      ELSE LET n == Number("asreti.c", s, q + 1, 16777215, "invalid immediate")
           IN  IF n.kind # "ok" THEN n
               ELSE Parsed(n.pos, WithImmediate(code, n.code))

\* src/unnamed/part_002, lines 596-671.
Immediate_part_002(s, q, code) ==
  LET ch == Ch(s, q + 1)
  IN  IF ch = " " THEN Error(q + 1, "unexpected space instead of immediate")
      ELSE IF is_end_of_line_character(ch) THEN Error(q + 1, "immediate misssing")
      ELSE IF ch = "-"
        THEN IF Ch(s, q + 2) = "0" THEN Error(q + 2, "unexpected '0' after '-'")
             ELSE IF ~isdigit(Ch(s, q + 2)) THEN Error(q + 2, "expected digit after '-'")
             ELSE LET n == Number("part_002", s, q + 2, 8388608,
                                  "maximum negative immediate exceeded")
                  IN  IF n.kind # "ok" THEN n
                      ELSE Parsed(n.pos, WithImmediate(code, Negated(n.code)))
      ELSE IF isdigit(ch)
        THEN LET n == Number("part_002", s, q + 1, 16777215, "maximum immediate exceeded")
             IN  IF n.kind # "ok" THEN n
                 ELSE Parsed(n.pos, WithImmediate(code, n.code))
      ELSE IF isprint(ch) THEN Error(q + 1, "unexpected character '%c' expecting immediate")
      ELSE Error(q + 1, "unexpected character code '<0x%02x>' expecting immediate")

(***************************************************************************)
(* The operands of an instruction whose name was read (m), and what        *)
(* follows them up to the new-line.                                        *)
(***************************************************************************)
\* 'code |= S << 26' and 'code |= D << 24'
WithSource(code, S) == Or32(code, <<S * 1024, 0>>)

WithDestination_at_26(code, D) == Or32(code, <<D * 1024, 0>>)

WithDestination(code, D) == Or32(code, <<D * 256, 0>>)

\* The first place from q on that holds neither a space nor a tab.
RECURSIVE SkipWhiteSpace(_, _)
SkipWhiteSpace(s, q) ==
  IF Ch(s, q) = " " \/ Ch(s, q) = "\t" THEN SkipWhiteSpace(s, q + 1) ELSE q

\* An assembler that takes a comment to end where its white space ends.
EndOfComment_at_once(s, q) == IF Ch(s, q) = " " \/ Ch(s, q) = "\t" THEN q + 1 ELSE q

\* The first place after q that holds a new-line or lies behind the end.
RECURSIVE EndOfComment(_, _)
EndOfComment(s, q) ==
  IF Ch(s, q + 1) = "\n" \/ Ch(s, q + 1) = EOF THEN q + 1 ELSE EndOfComment(s, q + 1)

\* White space and a comment after a complete instruction, and the
\* new-line (src/asreti.c 535-549, part_002 677-691).
EndOfInstruction(s, q, code) ==
  LET w == SkipWhiteSpace(s, q)
      e == IF Ch(s, w) = ";" THEN EndOfComment(s, w) ELSE w
  IN  IF Ch(s, w) = ";" /\ Ch(s, e) = EOF
        THEN Error(e, "unexpected end-of-file in comment")
      ELSE IF Ch(s, e) # "\n" THEN Error(e, "expected new-line")
      ELSE [kind |-> "word", pos |-> e, code |-> code, text |-> ""]

\* src/asreti.c, lines 411-533: the source register, ...
Source_asreti(s, m) ==
  IF m.parse_source
    THEN IF Ch(s, m.pos) # " " THEN Error(m.pos, "invalid instruction")
         ELSE LET r == Register_asreti(s, m.pos, "invalid source register")
              IN  IF r.kind # "ok" THEN r
                  ELSE Parsed(r.pos + 1, WithSource(m.code, r.code))
    ELSE Parsed(m.pos, m.code)

\* ... the destination register after the source S, ...
Destination_asreti(s, m, S) ==
  IF S.kind # "ok" \/ ~m.parse_destination THEN S
  ELSE IF Ch(s, S.pos) # " "
    THEN Error(S.pos, IF m.parse_source THEN "invalid source register"
                      ELSE "invalid instruction")
  ELSE LET r == Register_asreti(s, S.pos, "invalid destination register")
       IN  IF r.kind # "ok" THEN r
           ELSE Parsed(r.pos + 1, WithDestination(S.code, r.code))

\* ... the immediate after the destination D, ...
OperandImmediate_asreti(s, m, D) ==
  IF D.kind # "ok" \/ ~m.parse_immediate THEN D
  ELSE IF Ch(s, D.pos) # " "
    THEN Error(D.pos, IF m.parse_destination THEN "invalid destination register"
                      ELSE "invalid instruction")
  ELSE Immediate_asreti(s, D.pos, D.code)

\* ... and the character after the last operand i.
EndOfOperands_asreti(s, m, i) ==
  IF i.kind # "ok" THEN i
  ELSE IF Ch(s, i.pos) \notin {" ", "\t", ";", "\n"}
    THEN Error(i.pos, IF m.parse_immediate THEN "invalid immediate"
                      ELSE IF m.parse_destination THEN "invalid destination register"
                      ELSE "invalid source register")
  ELSE EndOfInstruction(s, i.pos, i.code)

Operands_asreti(s, m) ==
  EndOfOperands_asreti(s, m,
    OperandImmediate_asreti(s, m, Destination_asreti(s, m, Source_asreti(s, m))))

\* src/unnamed/part_002, lines 560-675: the space after the name and the
\* source register, ...
Source_part_002(ndebug, s, m) ==
  IF Ch(s, m.pos) # " "
    THEN invalid_instruction("part_002", ndebug, Ch(s, m.pos), m.pos)
  ELSE IF m.parse_source
    THEN LET r == parse_register(s, m.pos, "source")
         IN  IF r.kind # "ok" THEN r
             ELSE IF Ch(s, r.pos + 1) # " "
               THEN Error(r.pos + 1,
                          IF is_parsable_character(Ch(s, r.pos + 1))
                            THEN "invalid source register"
                            ELSE "expected space after source register")
             ELSE Parsed(r.pos + 1, WithSource(m.code, r.code))
  ELSE Parsed(m.pos, m.code)

\* ... the destination register after the source S, ...
Destination_part_002(s, m, S) ==
  IF S.kind # "ok" \/ ~m.parse_destination THEN S
  ELSE LET r == parse_register(s, S.pos, "destination")
           ch == Ch(s, r.pos + 1)
       IN  IF r.kind # "ok" THEN r
           ELSE IF m.parse_immediate /\ ch # " "
             THEN Error(r.pos + 1,
                        IF is_parsable_character(ch)
                          THEN "invalid destination register"
                          ELSE "expected space after destination register")
           ELSE IF ~m.parse_immediate /\ is_parsable_character(ch)
             THEN Error(r.pos + 1, "invalid destination register")
           ELSE Parsed(r.pos + 1, WithDestination(S.code, r.code))

\* ... and the immediate after the destination D with the character
\* after it (line 673).
OperandImmediate_part_002(s, m, D) ==
  IF D.kind # "ok" \/ ~m.parse_immediate THEN D
  ELSE LET r == Immediate_part_002(s, D.pos, D.code)
       IN  IF r.kind # "ok" THEN r
           ELSE IF is_parsable_character(Ch(s, r.pos))
             THEN Error(r.pos, "invalid immediate")
           ELSE r

EndOfOperands_part_002(s, i) ==
  IF i.kind # "ok" THEN i ELSE EndOfInstruction(s, i.pos, i.code)

Operands_part_002(ndebug, s, m) ==
  EndOfOperands_part_002(s,
    OperandImmediate_part_002(s, m, Destination_part_002(s, m, Source_part_002(ndebug, s, m))))

(***************************************************************************)
(* One iteration of the loop of main (src/asreti.c 170-558, part_002       *)
(* 322-700) after 'read' characters were read: "continue" after white      *)
(* space or a comment line, "DONE" at the end of the file, "word" with     *)
(* the code of an instruction line, or the end of the run.                 *)
(***************************************************************************)
\* The name that was read (m) and its operands.
Instruction(rev, ndebug, s, m) ==
  IF m.kind = "invalid" THEN invalid_instruction(rev, ndebug, Ch(s, m.pos), m.pos)
  ELSE IF rev = "asreti.c" THEN Operands_asreti(s, m)
  ELSE Operands_part_002(ndebug, s, m)

Iteration(rev, ndebug, s, read) ==
  LET q == read + 1
      ch == Ch(s, q)
      e == EndOfComment(s, q)
  IN  IF ch = " " \/ ch = "\t" THEN [kind |-> "continue", pos |-> q, code |-> Zero, text |-> ""]
      ELSE IF ch = EOF THEN [kind |-> "DONE", pos |-> q, code |-> Zero, text |-> ""]
      ELSE IF ch = ";"
        THEN IF Ch(s, e) = EOF THEN Error(e, "unexpected end-of-file in comment")
             ELSE [kind |-> "continue", pos |-> e, code |-> Zero, text |-> ""]
      ELSE IF ch = "\n" THEN Error(q, "unexpected empty line")
      ELSE IF ch \in {"A", "J", "L", "M", "N", "O", "S"}
        THEN Instruction(rev, ndebug, s, Mnemonic(rev, s, q))
      ELSE IF rev = "asreti.c"
        THEN Error(q, IF isprint(ch) THEN "unexpected character '%c'"
                      ELSE "unexpected character code '0x%02x'")
      ELSE Error(q, IF is_parsable_character(ch) THEN "unexpected character '%c'"
                    ELSE IF isprint(ch) THEN "invalid character '%c'"
                    ELSE "invalid character code '0x%02x'")

\* The places read in an iteration that hold a carriage-return without a
\* new-line: read_char ends the run at the first of them.
LoneCarriageReturns(s, read, r) == {q \in read + 1 .. r.pos : Ch(s, q) = "\r"}

Minimum(S) == CHOOSE q \in S : \A x \in S : q <= x

\* The iteration r with read_char's error: 'seen' is the number of
\* characters that 'lineno' and 'last_read_char' have taken in.
WithCarriageReturn(s, read, r) ==
  LET cr == LoneCarriageReturns(s, read, r)
  IN  IF cr # {}
        THEN [kind |-> "error", pos |-> Minimum(cr), seen |-> Minimum(cr) - 1,
              code |-> Zero, text |-> "missing new-line after carriage-return"]
        ELSE [kind |-> r.kind, pos |-> r.pos, seen |-> r.pos, code |-> r.code,
              text |-> r.text]

Outcome(rev, ndebug, s, read) ==
  WithCarriageReturn(s, read, Iteration(rev, ndebug, s, read))

BigEndian(code) ==
  <<Hi(code) \div 256, Hi(code) % 256, Lo(code) \div 256, Lo(code) % 256>>

\* The four bytes of a word, the least significant first.
LittleEndian(code) ==
  <<Lo(code) % 256, Lo(code) \div 256, Hi(code) % 256, Hi(code) \div 256>>

\* error(...): the line is 'lineno - (last_read_char == '\n')'.
ParseError(line, last, text) ==
  <<[line |-> line - (IF last = "\n" THEN 1 ELSE 0), text |-> text]>>

\* One iteration of the loop of main on the characters that read_char
\* yields for the input, 'offset' of which were read.  The output is a file
\* or a pipe: what stdio holds of it is lost when the tool aborts.
Assemble ==
  /\ tool = "asreti"
  /\ exit = "running"
  /\ \E r \in {Outcome(revision, NDEBUG, read_char(input), offset)} :
       /\ offset' = r.pos
       /\ lineno' = LinenoAfter(read_char(input), r.seen)
       /\ last_read_char' = LastReadAfter(read_char(input), r.seen)
       /\ output' = IF r.kind = "word" THEN output \o LittleEndian(r.code)
                    ELSE IF r.kind = "abort" THEN <<>>
                    ELSE output
       /\ exit' = CASE r.kind = "DONE" -> "0"
                    [] r.kind = "error" -> "1"
                    [] r.kind = "abort" -> "SIGABRT"
                    [] OTHER -> "running"
       /\ diagnostic' =
            IF r.kind = "error"
              THEN ParseError(LinenoAfter(read_char(input), r.seen),
                              LastReadAfter(read_char(input), r.seen), r.text)
              ELSE <<>>
  /\ UNCHANGED <<revision, NDEBUG, tool, input, instruction_buffer, piped, quiz>>
  /\ UNCHANGED emulator

(***************************************************************************)
(* The disassembler: disassemble_reti_code of disreti.h (src/emreti.c,     *)
(* lines 1197-1355) and the loop of src/disreti.c.  A text is the          *)
(* sequence of its characters, and "NUL" is the zero byte.                 *)
(***************************************************************************)
disassembled_reti_code_length == 32

NUL == "NUL"

\* What a case of the decoder selects.  'asserted' is the assertion of the
\* case, TRUE where it has none.
Selected(name, instruction_length, source, destination, immediate, hexadecimal, positive, res, asserted) ==
  [instruction |-> name, instruction_length |-> instruction_length,
   decode_source |-> source, decode_destination |-> destination,
   decode_immediate |-> immediate, hexadecimal |-> hexadecimal,
   positive |-> positive, res |-> res, asserted |-> asserted]

\* 'top_two_bits == 1' (lines 1209-1220).
DecodeLoad(code) ==
  LET next_top_two_bits == (Hi(code) \div 4096) % 4
  IN  IF next_top_two_bits = 0
        THEN Selected(<<"L", "O", "A", "D">>, 4, FALSE, TRUE, TRUE, FALSE, TRUE, TRUE, TRUE)
      ELSE IF next_top_two_bits = 1
        THEN Selected(<<"L", "O", "A", "D", "I", "N", "1">>, 7,
                      FALSE, TRUE, TRUE, FALSE, TRUE, TRUE, TRUE)
      ELSE IF next_top_two_bits = 2
        THEN Selected(<<"L", "O", "A", "D", "I", "N", "2">>, 7,
                      FALSE, TRUE, TRUE, FALSE, TRUE, TRUE, TRUE)
      ELSE Selected(<<"L", "O", "A", "D", "I">>, 5, FALSE, TRUE, TRUE, FALSE, TRUE, TRUE,
                    next_top_two_bits = 3)

\* 'top_two_bits == 2' (lines 1221-1237): 'code >> 28' is not masked.
DecodeStore(code) ==
  LET next_top_two_bits == Hi(code) \div 4096
  IN  IF next_top_two_bits # 3
        THEN IF next_top_two_bits = 0
               THEN Selected(<<"S", "T", "O", "R", "E">>, 5,
                             FALSE, TRUE, TRUE, FALSE, TRUE, TRUE, TRUE)
             ELSE IF next_top_two_bits = 1
               THEN Selected(<<"S", "T", "O", "R", "E", "I", "N", "1">>, 8,
                             FALSE, TRUE, TRUE, FALSE, TRUE, TRUE, TRUE)
             ELSE Selected(<<"S", "T", "O", "R", "E", "I", "N", "2">>, 8,
                           FALSE, TRUE, TRUE, FALSE, TRUE, TRUE, next_top_two_bits = 2)
        ELSE Selected(<<"M", "O", "V", "E">>, 4, TRUE, TRUE, FALSE, FALSE, TRUE, TRUE, TRUE)

\* 'top_two_bits == 0' (lines 1238-1264).
DecodeCompute(code) ==
  LET next_top_four_bits == (Hi(code) \div 1024) % 16
      Signed(name) == Selected(name, Len(name), FALSE, TRUE, TRUE, FALSE, FALSE, TRUE, TRUE)
      Hex(name) == Selected(name, Len(name), FALSE, TRUE, TRUE, TRUE, TRUE, TRUE, TRUE)
  IN  CASE next_top_four_bits = 2 -> Signed(<<"S", "U", "B", "I">>)
        [] next_top_four_bits = 3 -> Signed(<<"A", "D", "D", "I">>)
        [] next_top_four_bits = 4 -> Selected(<<"O", "P", "L", "U", "S", "I">>, 5,
                                              FALSE, TRUE, TRUE, TRUE, TRUE, TRUE, TRUE)
        [] next_top_four_bits = 5 -> Hex(<<"O", "R", "I">>)
        [] next_top_four_bits = 6 -> Hex(<<"A", "N", "D", "I">>)
        [] next_top_four_bits = 10 -> Signed(<<"S", "U", "B">>)
        [] next_top_four_bits = 11 -> Signed(<<"A", "D", "D">>)
        [] next_top_four_bits = 12 -> Hex(<<"O", "P", "L", "U", "S">>)
        [] next_top_four_bits = 13 -> Hex(<<"O", "R">>)
        [] next_top_four_bits = 14 -> Hex(<<"A", "N", "D">>)
        [] OTHER -> Selected(<<"I", "L", "L", "E", "G", "A", "L">>, 6,
                             FALSE, FALSE, FALSE, FALSE, TRUE, FALSE, TRUE)

\* 'top_two_bits == 3' (lines 1265-1288): the test for "JUMP<=" repeats
\* the test for "NOP".
DecodeJump(code) ==
  LET next_top_three_bits == (Hi(code) \div 2048) % 8
      Jump(name, length, asserted) ==
        Selected(name, length, FALSE, FALSE, TRUE, FALSE, FALSE, TRUE, asserted)
  IN  IF next_top_three_bits = 0 THEN Jump(<<"N", "O", "P">>, 3, TRUE)
      ELSE IF next_top_three_bits = 1 THEN Jump(<<"J", "U", "M", "P", ">">>, 5, TRUE)
      ELSE IF next_top_three_bits = 2 THEN Jump(<<"J", "U", "M", "P", "=">>, 6, TRUE)
      ELSE IF next_top_three_bits = 3 THEN Jump(<<"J", "U", "M", "P", ">", "=">>, 6, TRUE)
      ELSE IF next_top_three_bits = 4 THEN Jump(<<"J", "U", "M", "P", "<">>, 5, TRUE)
      ELSE IF next_top_three_bits = 5 THEN Jump(<<"J", "U", "M", "P", "!", "=">>, 6, TRUE)
      ELSE IF next_top_three_bits = 0 THEN Jump(<<"J", "U", "M", "P", "<", "=">>, 6, TRUE)
      ELSE Jump(<<"J", "U", "M", "P">>, 4, next_top_three_bits = 7)

Decode(code) ==
  LET top_two_bits == Hi(code) \div 16384
  IN  IF top_two_bits = 1 THEN DecodeLoad(code)
      ELSE IF top_two_bits = 2 THEN DecodeStore(code)
      ELSE IF top_two_bits = 0 THEN DecodeCompute(code)
      ELSE DecodeJump(code)

\* The register names of lines 1299-1308 and 1319-1328.
RegisterName(register_code) ==
  IF register_code = 0 THEN <<"P", "C">>
  ELSE IF register_code = 1 THEN <<"I", "N", "1">>
  ELSE IF register_code = 2 THEN <<"I", "N", "2">>
  ELSE <<"A", "C", "C">>

\* sprintf with "%u", "%x" and "%d".
RECURSIVE Unsigned(_)
Unsigned(n) ==
  IF n < 10 THEN <<DecimalDigits[n + 1]>>
  ELSE Unsigned(n \div 10) \o <<DecimalDigits[(n % 10) + 1]>>

HexDigits == DecimalDigits \o LowerHex

\* The digits of n in base 2.
RECURSIVE Binary(_)
Binary(n) ==
  IF n < 2 THEN <<HexDigits[n + 1]>>
  ELSE Binary(n \div 2) \o <<HexDigits[(n % 2) + 1]>>

RECURSIVE Hexadecimal(_)
Hexadecimal(n) ==
  IF n < 16 THEN <<HexDigits[n + 1]>>
  ELSE Hexadecimal(n \div 16) \o <<HexDigits[(n % 16) + 1]>>

SignedDecimal(n) == IF n < 0 THEN <<"-">> \o Unsigned(0 - n) ELSE Unsigned(n)

\* "%08x" of a 32-bit word.
Hex4(n) ==
  <<HexDigits[(n \div 4096) + 1], HexDigits[((n \div 256) % 16) + 1],
    HexDigits[((n \div 16) % 16) + 1], HexDigits[(n % 16) + 1]>>

Hex8(word) == Hex4(Hi(word)) \o Hex4(Lo(word))

\* '(int)(immediate_code << 8) >> 8' (line 1344).
signed_code(immediate_code) ==
  IF immediate_code >= 8388608 THEN immediate_code - 16777216 ELSE immediate_code

\* memcpy of 'n' bytes of a string literal: the literal ends in a zero byte.
Bytes(literal, n) == [k \in 1 .. n |-> IF k <= Len(literal) THEN literal[k] ELSE NUL]

\* The characters of a buffer up to its first zero byte.
RECURSIVE CString(_)
CString(buffer) ==
  IF buffer = <<>> \/ Head(buffer) = NUL THEN <<>>
  ELSE <<Head(buffer)>> \o CString(Tail(buffer))

\* disassemble_reti_code (lines 1197-1355): the buffer it filled with the
\* final zero byte, its length and its result, or the failed assertion of a
\* build with assertions.
disassemble_reti_code(code, ndebug) ==
  LET d == Decode(code)
      register_code == (Hi(code) \div 1024) % 4
      immediate_code == (Hi(code) % 256) * 65536 + Lo(code)
      name == Bytes(d.instruction, d.instruction_length)
      source == IF d.decode_source THEN <<" ">> \o RegisterName(register_code) ELSE <<>>
      destination ==
        IF d.decode_destination THEN <<" ">> \o RegisterName(register_code) ELSE <<>>
      immediate ==
        IF ~d.decode_immediate THEN <<>>
        ELSE IF d.hexadecimal THEN <<" ", "0", "x">> \o Hexadecimal(immediate_code)
        ELSE IF d.positive THEN <<" ">> \o Unsigned(immediate_code)
        ELSE <<" ">> \o SignedDecimal(signed_code(immediate_code))
      str == name \o source \o destination \o immediate
      asserted ==
        /\ d.asserted
        /\ Len(d.instruction) = d.instruction_length
        /\ Len(str) < disassembled_reti_code_length
  IN  IF ~ndebug /\ ~asserted
        THEN [kind |-> "abort", res |-> FALSE, str |-> <<>>, length |-> 0]
        ELSE [kind |-> "return", res |-> d.res, str |-> str \o <<NUL>>,
              length |-> Len(str)]

\* read_word of src/disreti.c (lines 65-85): the word of the four bytes at
\* 'bytes', lowest byte first.
read_word(file, bytes) ==
  <<file[bytes + 4] * 256 + file[bytes + 3], file[bytes + 2] * 256 + file[bytes + 1]>>

\* The messages of read_word for a word cut short by the end of the file.
MissingBytes(missing) ==
  IF missing = 3 THEN "three bytes of word missing"
  ELSE IF missing = 2 THEN "two bytes of word missing"
  ELSE "last byte of word missing"

\* "%-21s": the text, padded to 21 characters with spaces on the right.
RECURSIVE LeftJustified(_, _)
LeftJustified(text, width) ==
  IF Len(text) >= width THEN text ELSE LeftJustified(text \o <<" ">>, width)

\* The line of line 125.
Line(text, disassembled, code) ==
  LeftJustified(CString(text), 21) \o <<" ", ";", " ">>
    \o Hex8(<<0, disassembled>>) \o <<" ">> \o Hex8(code) \o <<"\n">>

\* The characters of a sequence as one string.
RECURSIVE Join(_)
Join(text) == IF text = <<>> THEN "" ELSE Head(text) \o Join(Tail(text))

\* error(...) of src/disreti.c (lines 40-51).
DisretiError(bytes, words, text) == <<[byte |-> bytes, words |-> words, text |-> text]>>

\* One iteration of the loop of src/disreti.c (lines 122-126) with 'offset'
\* bytes read: the end of the file, a word cut short, a failed assertion
\* of disassemble_reti_code, an illegal instruction or one more line.
\* The output is a file or a pipe: what stdio holds of it is written when
\* the tool exits and is lost when it aborts.
Disassemble ==
  /\ tool = "disreti"
  /\ exit = "running"
  /\ LET left == Len(input) - offset
         code == read_word(input, offset)
         r == disassemble_reti_code(code, NDEBUG)
     IN  IF left = 0
           THEN /\ exit' = "0"
                /\ UNCHANGED <<offset, output, instruction_buffer, diagnostic>>
         ELSE IF left < 4
           THEN /\ exit' = "1"
                /\ offset' = Len(input)
                /\ diagnostic' = DisretiError(Len(input), offset \div 4, MissingBytes(4 - left))
                /\ UNCHANGED <<output, instruction_buffer>>
         ELSE IF r.kind = "abort"
           THEN /\ exit' = "SIGABRT"
                /\ offset' = offset + 4
                /\ output' = <<>>
                /\ UNCHANGED <<instruction_buffer, diagnostic>>
         ELSE IF ~r.res
           THEN /\ exit' = "1"
                /\ offset' = offset + 4
                /\ instruction_buffer' = r.str
                /\ diagnostic' =
                     DisretiError(offset + 4, offset \div 4 + 1,
                                  "illegal instruction '0x" \o Join(Hex8(code)) \o "'")
                /\ UNCHANGED output
         ELSE /\ exit' = "running"
              /\ offset' = offset + 4
              /\ instruction_buffer' = r.str
              /\ output' = output \o Line(r.str, offset \div 4, code)
              /\ UNCHANGED diagnostic
  /\ UNCHANGED <<revision, NDEBUG, tool, input, lineno, last_read_char, piped, quiz>>
  /\ UNCHANGED emulator

(***************************************************************************)
(* The tools in a row: the output of a tool that ended with status 0 is    *)
(* the input of the other one ('asreti < T | disreti | asreti').  'piped'  *)
(* keeps what each tool before read and wrote.                             *)
(***************************************************************************)
MaxPipes == 2

Pipe ==
  /\ tool \in {"asreti", "disreti", "ranreti"}
  /\ exit = "0"
  /\ Len(piped) < MaxPipes
  /\ tool' = IF tool = "asreti" THEN "disreti" ELSE "asreti"
  /\ input' = output
  /\ piped' = Append(piped, [tool |-> tool, input |-> input, output |-> output])
  /\ offset' = 0
  /\ lineno' = 1
  /\ last_read_char' = "none"
  /\ output' = <<>>
  /\ instruction_buffer' = <<>>
  /\ exit' = "running"
  /\ diagnostic' = <<>>
  /\ UNCHANGED <<revision, NDEBUG, quiz>>
  /\ UNCHANGED emulator

(***************************************************************************)
(* The inputs the model runs the tools on.                                 *)
(***************************************************************************)
\* The characters of a string.
RECURSIVE Characters(_)
Characters(string) ==
  IF string = "" THEN <<>> ELSE <<Head(string)>> \o Characters(Tail(string))

Registers == {"PC", "IN1", "IN2", "ACC"}

LoadMnemonics == {"LOAD", "LOADIN1", "LOADIN2", "LOADI"}

StoreMnemonics == {"STORE", "STOREIN1", "STOREIN2"}

LoadStoreMnemonics == LoadMnemonics \cup StoreMnemonics

BitwiseMnemonics == {"OPLUSI", "ORI", "ANDI", "OPLUS", "OR", "AND"}

ArithmeticMnemonics == {"SUBI", "ADDI", "SUB", "ADD"}

JumpMnemonics == {"JUMP", "JUMP>", "JUMP>=", "JUMP=", "JUMP<", "JUMP<=", "JUMP!="}

\* Immediates at and around the bounds, in the three notations.
UnsignedTexts == {"0", "1", "42", "8388607", "8388608", "16777215"}

SignedTexts == {"-8388608", "-42", "-1"}

HexTexts == {"0x0", "0x2a", "0x800000", "0xffffff"}

BeyondTexts == {"16777216", "-8388609", "-0", "0x1000000", "4294967338"}

ImmediateTexts == UnsignedTexts \cup SignedTexts \cup HexTexts \cup BeyondTexts

\* What follows the last operand of a line.
Terminators == {"\n", "\t\n"}

\* One line: a mnemonic with operands of its kind, and a store with a
\* register as the decoder prints it.
InstructionLines ==
  {m \o " " \o d \o " " \o i :
     m \in LoadStoreMnemonics \cup BitwiseMnemonics \cup ArithmeticMnemonics,
     d \in Registers, i \in ImmediateTexts}
  \cup {m \o " " \o i : m \in StoreMnemonics \cup JumpMnemonics, i \in ImmediateTexts}
  \cup {"MOVE " \o s \o " " \o d : s \in Registers, d \in Registers}
  \cup {"NOP"}

\* Lines that start with something else than a mnemonic.
OtherLines ==
  {"HALT", "LOADX ACC 1", "LOA ACC 1", "STOREIN3 ACC 1", "ADDX ACC 1", "JUMP? 1",
   "MOV ACC PC", "NO", "nop", "ORR ACC 1", "SUBS ACC 1", "NOP 0", "LOADI ACC", "LOADI 42",
   "LOADI ACD 42", "MOVE ACC 1", "JUMP ACC 1", "LOADI ACC 42 1"}

OneLine == {Characters(l \o t) : l \in InstructionLines \cup OtherLines, t \in Terminators}

\* Programs of a few lines with comments, white space and both line ends.
ProgramLines ==
  {"LOADI ACC 42\n", "LOADI ACC 42\t\n", "  ADDI\tACC  -1 ; decrement\n", "; a comment\n",
   "\tSTORE ACC 0x10\t; hexadecimal\r\n", "MOVE ACC IN1\n", "JUMP>= 3\t\n", "\n",
   "NOP \n", "OR IN2 255", " \t; indented\n", " \t\n"}

MaxLines == 2

RECURSIVE Programs(_)
Programs(n) ==
  IF n = 0 THEN {""} ELSE {""} \cup {p \o l : p \in Programs(n - 1), l \in ProgramLines}

\* Texts that read_char itself rejects, and a comment cut short.
BrokenTexts == {"LOADI ACC 42\r", "LOADI\rACC 42\n", "\r", "; no end", "LOADI ACC 42"}

\* An instruction and what follows its last operand: white space and a
\* comment with the new-line, and ends without it.
EndedHeads == {"LOADI ACC 42", "MOVE ACC IN1", "JUMP 1", "NOP"}

NewLineEnds == {"\n", " \n", "\t\n", " \t \n", ";c\n", " ; c\n", "\t;c\n", "\t \t; c ;\n"}

OtherEnds == {"", " ", "\t", ";c", "\t; c", " x\n", "\tx\n", "!\n", "x\n", "\t\t!"}

EndedLines == {Characters(h \o e) : h \in EndedHeads, e \in NewLineEnds \cup OtherEnds}

\* An accepted line and then a line with a name that is no mnemonic, with
\* a carriage-return alone, or with a comment cut short.
SecondLines ==
  {"LOADI ACC 42\t\nLOA ACC 1\n", "LOADI ACC 42\t\nNO\n", "LOADI ACC 42\t\n\rNOP \n",
   "LOADI ACC 42\t\n \rNOP \n", "LOADI ACC 42\t\r\n\r", "LOADI ACC 42\t\nNOP \r",
   "LOADI ACC 42\t\n; no end", "; c\n\r\n\rNOP \n"}

\* Instructions as their tokens, and lines in which one pair of tokens is
\* separated by something else than one space.
TokenLists ==
  {<<"LOADI", "ACC", "42">>, <<"MOVE", "ACC", "IN1">>, <<"MOVE", "IN2", "ACC">>,
   <<"ADDI", "IN1", "1">>, <<"JUMP", "1">>, <<"STORE", "5">>}

OtherSeparators == {"", "  ", "\t", " \t"}

Separated(tokens, k, sep) ==
  LET between(n) == IF n = k THEN sep ELSE " "
  IN  IF Len(tokens) = 2 THEN tokens[1] \o between(1) \o tokens[2]
      ELSE tokens[1] \o between(1) \o tokens[2] \o between(2) \o tokens[3]

SeparatedLines ==
  UNION {{Separated(t, k, sep) : k \in 1 .. Len(t) - 1, sep \in OtherSeparators} :
           t \in TokenLists}

\* Immediates with an 'x' after the first digit.
XTexts == {"0x1f", "0x1F", "0x", "0xg", "1x1f", "9x", "12x", "-1x10", "-0x10"}

Texts ==
  OneLine \cup {Characters(p) : p \in Programs(MaxLines)}
    \cup {Characters(t) : t \in BrokenTexts \cup SecondLines} \cup EndedLines
    \cup {Characters(l \o e) : l \in SeparatedLines, e \in {"\n", " \n"}}
    \cup {Characters("LOADI ACC " \o i \o "\t\n") : i \in XTexts}

\* Code files for the disassembler: one word (those of the emulator's
\* inputs, 0x7300002a and 0x7400002a), two words, and a word cut short.
CodeFiles ==
  {LittleEndian(w) : w \in TestWords \cup {<<29440, 42>>, <<29696, 42>>}}
    \cup {LittleEndian(<<29440, 42>>) \o LittleEndian(w) :
            w \in {<<29440, 42>>, <<0, 0>>, <<12032, 1>>}}
    \cup {SubSeq(LittleEndian(<<29440, 42>>), 1, n) : n \in 0 .. 3}

\* The emulator does not run.
NoEmulator ==
  /\ arg = ""
  /\ code_file = <<>>
  /\ data_file = <<>>
  /\ pc = "none"
  /\ reti = [code |-> <<>>, data |-> EmptyMemory,
             PC |-> Zero, ACC |-> Zero, IN1 |-> Zero, IN2 |-> Zero]
  /\ shadow = [valid |-> {}, code |-> 0, data |-> Zero]
  /\ steps = 0
  /\ row = NoRow
  /\ stored = EmptyMemory
  /\ stderr = <<>>
  /\ stdout = <<>>

\* A build of one revision of the assembler and of the disassembler, and
\* the first tool started on a file.
InitTools ==
  /\ NoEmulator
  /\ revision \in {"asreti.c", "part_002"}
  /\ NDEBUG \in BOOLEAN
  /\ \/ tool = "asreti" /\ input \in Texts
     \/ tool = "disreti" /\ input \in CodeFiles
  /\ offset = 0
  /\ lineno = 1
  /\ last_read_char = "none"
  /\ output = <<>>
  /\ instruction_buffer = <<>>
  /\ exit = "running"
  /\ diagnostic = <<>>
  /\ piped = <<>>
  /\ quiz = NoQuiz

\* The words fread yields for a file (src/emreti.c, lines 685-689) on a
\* host that keeps the lowest byte of an unsigned first; bytes after the
\* last whole word are dropped.
fread(file) ==
  [k \in 1 .. Len(file) \div 4 |->
     <<file[4 * k] * 256 + file[4 * k - 1], file[4 * k - 2] * 256 + file[4 * k - 3]>>]

\* 'emreti code': the emulator is started, without options and without a
\* data file, on the code file that the assembler wrote from a text or
\* from the lines of ranreti.
Emulate ==
  /\ tool = "asreti"
  /\ exit = "0"
  /\ piped = <<>> \/ (Len(piped) = 1 /\ piped[1].tool = "ranreti")
  /\ tool' = "emreti"
  /\ input' = output
  /\ piped' = Append(piped, [tool |-> tool, input |-> input, output |-> output])
  /\ offset' = 0
  /\ lineno' = 1
  /\ last_read_char' = "none"
  /\ output' = <<>>
  /\ instruction_buffer' = <<>>
  /\ exit' = "running"
  /\ diagnostic' = <<>>
  /\ arg' = ""
  /\ code_file' = fread(output)
  /\ data_file' = <<>>
  /\ pc' = "start"
  /\ UNCHANGED <<revision, NDEBUG, quiz, reti, shadow, steps, row, stored, stderr, stdout>>

NextTools == Assemble \/ Disassemble \/ Pipe \/ Emulate \/ Start \/ Stop \/ Step \/ Dump

SpecTools == InitTools /\ [][NextTools]_vars

(***************************************************************************)
(* The generator 'ranreti' (src/decbin.c, lines 255-470).  Its input is    *)
(* the number of instructions of the command line, 'offset' is the 'pc'    *)
(* of its loop and 'output' the lines printed.  The seed is not modelled:  *)
(* random32 yields any of a few words, pick32 any number of its interval.  *)
(***************************************************************************)
MaxInstructions == 2

\* The words random32 yields: 0x01000000 (illegal), 0x7400002a (LOADI),
\* 0xc8000005 (JUMP>), 0xc0000000 (NOP), 0xb4000007 (MOVE), and three words
\* with bits set in every field: 0x8f800123 (a store), 0xff812345 (JUMP)
\* and 0x2d80ffff (ADD).
random32 ==
  {<<256, 0>>, <<29696, 42>>, <<51200, 5>>, <<49152, 0>>, <<46080, 7>>,
   <<36736, 291>>, <<65409, 9029>>, <<11648, 65535>>}

pick32_lowest(l, r) == {l}

pick32(l, r) == l .. r

random1 == BOOLEAN

\* 'code > 0xc0000000'
IsJumpCode(code) == Hi(code) > 49152 \/ (Hi(code) = 49152 /\ Lo(code) > 0)

\* 'min_jump' and 'max_jump' as signed numbers, for a backward jump
\* (pc && random1()), with p the 'pc' of the loop, and for a forward one.
min_jump(p, backward) ==
  IF p # 0 /\ backward THEN (IF p >= 8388608 THEN p - 8388608 ELSE 0) - p
  ELSE (p + 1) - p

max_jump_unbounded(p, instructions, backward) ==
  IF p # 0 /\ backward THEN (p - 1) - p ELSE (p + 8388607) - p

max_jump(p, instructions, backward) ==
  IF p # 0 /\ backward THEN (p - 1) - p
  ELSE (IF p + 8388607 > instructions THEN instructions ELSE p + 8388607) - p

\* 'code &= ~0xffffff; code |= immediate & 0xffffff'
WithJump(code, jump) ==
  <<(Hi(code) \div 256) * 256 + ((jump + 16777216) % 16777216) \div Half,
    ((jump + 16777216) % 16777216) % Half>>

\* 'if (!((code >> 24) & 3)) code |= pick32 (1,3) << 24'
WithRegister(code, d) ==
  IF (Hi(code) \div 256) % 4 = 0 THEN <<Hi(code) + d * 256, Lo(code)>> ELSE code

\* The codes an iteration of the loop can come to.
Generated(p, instructions) ==
  {WithRegister(code, d) : code \in {c \in random32 : ~IsJumpCode(c)}, d \in pick32(1, 3)}
    \cup UNION {{WithRegister(WithJump(code, jump), d) :
                   code \in {c \in random32 : IsJumpCode(c)}, d \in pick32(1, 3),
                   jump \in pick32(min_jump(p, backward),
                                   max_jump(p, instructions, backward))} :
                backward \in random1}

\* '; ranreti <seed> <instructions>'
Header(instructions) ==
  Characters("; ranreti <seed> ") \o Unsigned(instructions) \o <<"\n">>

\* One iteration of the loop of main, or its end.
Generate ==
  /\ tool = "ranreti"
  /\ exit = "running"
  /\ IF offset = input[1]
       THEN /\ exit' = "0"
            /\ UNCHANGED <<offset, output, instruction_buffer>>
       ELSE \E code \in Generated(offset, input[1]) :
              \E r \in {disassemble_reti_code(code, NDEBUG)} :
                /\ offset' = offset + 1
                /\ exit' = IF r.kind = "abort" THEN "SIGABRT" ELSE "running"
                /\ instruction_buffer' = IF r.kind = "abort" THEN instruction_buffer ELSE r.str
                /\ output' = IF r.kind = "abort" THEN <<>>
                             ELSE IF r.res THEN output \o Line(r.str, offset, code)
                             ELSE output
  /\ UNCHANGED <<revision, NDEBUG, tool, input, lineno, last_read_char, diagnostic, piped, quiz>>
  /\ UNCHANGED emulator

(***************************************************************************)
(* The quiz 'retiquiz' (src/retiquiz.c; the same loop is in                *)
(* src/emureti.c, lines 805-837).  Its random words come from the same     *)
(* random32 and pick32, and each word is restricted before it is shown.    *)
(* 'input' is the number of questions to ask; the keys come from the       *)
(* terminal.  The colour codes of an interactive terminal and the table of *)
(* results printed after the loop are left out of 'output'.                *)
(***************************************************************************)
MaxQuestions == 1

\* The keys that the player presses: 'q' or a hexadecimal digit (any other
\* key only rings the bell and is read again, lines 312-326).
Keys == {"q", "0", "7", "f"}

\* 'type', 'mode' and 'comparison' (lines 246-248).
type(code) == Hi(code) \div 16384

mode(code) == (Hi(code) \div 4096) % 4

comparison(code) == (Hi(code) \div 2048) % 8

\* 'code & 0x00800000'.
NegativeImmediate(code) == (Hi(code) \div 128) % 2 = 1

\* Lines 250-253: immediates are restricted to small numbers.
RestrictImmediate(code) ==
  IF type(code) # 1 /\ type(code) # 2 /\ NegativeImmediate(code)
    THEN <<(Hi(code) \div 256) * 256 + 255, 65504 + (Lo(code) % 32)>>
    ELSE <<(Hi(code) \div 256) * 256, Lo(code) % 32>>

\* Lines 257-258: 'code &= ~0x0c000000' for a LOAD.
ForceLoad(t, code) ==
  IF t = 1 THEN <<Hi(code) - ((Hi(code) \div 1024) % 4) * 1024, Lo(code)>> ELSE code

\* Lines 259-264: 'code &= 0xff000000' for MOVE, 'code &= ~0x0f000000' for
\* the stores.
ForceStore(t, m, code) ==
  IF t # 2 THEN code
  ELSE IF m = 3 THEN <<(Hi(code) \div 256) * 256, 0>>
  ELSE <<Hi(code) - ((Hi(code) \div 256) % 16) * 256, Lo(code)>>

\* Lines 265-269: 'code &= ~0x07000000' for the jumps, and a zero immediate
\* for NOP and JUMP.
ForceJump(t, c, code) ==
  IF t # 3 THEN code
  ELSE IF c = 0 \/ c = 7 THEN <<(Hi(code) \div 2048) * 2048, 0>>
  ELSE <<Hi(code) - ((Hi(code) \div 256) % 8) * 256, Lo(code)>>

\* The word of a question for a random word (lines 242-269).
Question(code) ==
  ForceJump(type(code), comparison(code),
            ForceStore(type(code), mode(code),
                       ForceLoad(type(code), RestrictImmediate(code))))

\* The digit that is asked for (lines 278-299), 'code' the restricted word.
Positions(t, m, c, code) ==
  IF NegativeImmediate(code) THEN pick32(0, 7)
  ELSE IF t = 2
    THEN IF m = 3 THEN pick32(0, 1)
         ELSE {IF pos = 0 THEN 0 ELSE pos + 5 : pos \in pick32(0, 2)}
  ELSE IF t = 3 /\ (c = 0 \/ c = 7) THEN {pos % 2 : pos \in pick32(0, 3)}
  ELSE {IF pos > 1 THEN pos + 4 ELSE pos : pos \in pick32(0, 3)}

\* 'nibble' of a key (lines 312-320).
nibble(ch) == CHOOSE n \in 0 .. 15 : HexDigits[n + 1] = ch

\* 'answer_code' (lines 328-330): the word with the digit at 'pos' replaced.
answer_code(code, pos, n) ==
  LET shift == 16 ^ (3 - (pos % 4))
      half == IF pos < 4 THEN Hi(code) ELSE Lo(code)
      answered == half - ((half \div shift) % 16) * shift + n * shift
  IN  IF pos < 4 THEN <<answered, Lo(code)>> ELSE <<Hi(code), answered>>

\* The question as printed (line 302): the word with '_' at 'pos'.
Query(text, asked, code, pos) ==
  LeftJustified(CString(text), 19) \o <<" ", ";", " ">> \o Hex8(<<0, asked>>)
    \o <<" ">> \o [k \in 1 .. 8 |-> IF k = pos + 1 THEN "_" ELSE Hex8(code)[k]]

\* What follows the key of an answer (lines 334-367).
Verdict(ch, code, pos, matched) ==
  <<ch>> \o SubSeq(Hex8(code), pos + 2, 8) \o <<" ">>
    \o (IF matched THEN Characters("OK")
        ELSE Characters("XX  expected ") \o <<Hex8(code)[pos + 1]>>
               \o Characters(" in ") \o Hex8(code) \o Characters(" at I[")
               \o Unsigned(4 * (7 - pos) + 3) \o <<":">> \o Unsigned(4 * (7 - pos))
               \o <<"]">>)
    \o <<"\n">>

\* The quiz after a question with the word 'code' (lines 274-371).
Asked(code, text, pos, ch) ==
  \E a \in {IF ch = "q" THEN [kind |-> "quit", res |-> FALSE, str |-> <<>>]
            ELSE disassemble_reti_code(answer_code(code, pos, nibble(ch)), NDEBUG)} :
    \E matched \in {a.kind = "return" /\ a.res /\ a.str = text} :
      /\ exit' = IF a.kind = "abort" THEN "SIGABRT"
                 ELSE IF ch = "q" THEN "0" ELSE "running"
      /\ quiz' = IF ch = "q" \/ a.kind = "abort"
                   THEN [quiz EXCEPT !.asked = @ + 1, !.code = code]
                   ELSE [asked |-> quiz.asked + 1,
                         answered |-> quiz.answered + 1,
                         correct |-> quiz.correct + (IF matched THEN 1 ELSE 0),
                         incorrect |-> quiz.incorrect + (IF matched THEN 0 ELSE 1),
                         code |-> code]
      /\ offset' = offset + 1
      /\ instruction_buffer' = text
      /\ output' = output \o Query(text, offset, code, pos)
                     \o (IF ch = "q" THEN <<"\n">>
                         ELSE IF a.kind = "abort" THEN <<>>
                         ELSE Verdict(ch, code, pos, matched))

\* One iteration of the loop of main (lines 241-372), or its end.  'offset'
\* is the 'pc' that is printed.
Ask ==
  /\ tool = "retiquiz"
  /\ exit = "running"
  /\ IF quiz.asked = input[1]
       THEN /\ exit' = "0"
            /\ UNCHANGED <<offset, output, instruction_buffer, quiz>>
       ELSE \E random \in random32 :
              \E code \in {Question(random)} :
                \E r \in {disassemble_reti_code(code, NDEBUG)} :
                  IF r.kind = "abort"
                    THEN /\ exit' = "SIGABRT"
                         /\ UNCHANGED <<offset, output, instruction_buffer, quiz>>
                  ELSE IF ~r.res
                    THEN /\ instruction_buffer' = r.str
                         /\ UNCHANGED <<offset, output, exit, quiz>>
                  ELSE \E pos \in Positions(type(random), mode(random),
                                            comparison(random), code) :
                         \E ch \in Keys : Asked(code, r.str, pos, ch)
  /\ UNCHANGED <<revision, NDEBUG, tool, input, lineno, last_read_char, diagnostic, piped>>
  /\ UNCHANGED emulator

InitGenerator ==
  /\ NoEmulator
  /\ revision \in {"asreti.c", "part_002"}
  /\ NDEBUG \in BOOLEAN
  /\ \/ /\ tool = "ranreti"
        /\ input \in {<<instructions>> : instructions \in 0 .. MaxInstructions}
        /\ output = Header(input[1])
     \/ /\ tool = "retiquiz"
        /\ input \in {<<ask>> : ask \in 0 .. MaxQuestions}
        /\ output = <<>>
  /\ offset = 0
  /\ lineno = 1
  /\ last_read_char = "none"
  /\ instruction_buffer = <<>>
  /\ exit = "running"
  /\ diagnostic = <<>>
  /\ piped = <<>>
  /\ quiz = NoQuiz

NextGenerator ==
  Generate \/ Ask \/ Pipe \/ Assemble \/ Disassemble \/ Emulate \/ Start \/ Stop \/ Step \/ Dump

SpecGenerator == InitGenerator /\ [][NextGenerator]_vars

(***************************************************************************)
(* The encoder 'enchex' (src/asreti.c, lines 570-786): it reads lines      *)
(* '{address} {data}' of eight hexadecimal digits each and writes the data *)
(* words, lowest byte first.  'offset' is the number of characters read;   *)
(* 'words', the number of words written, is a fourth of the length of the  *)
(* output.  The output is flushed when the tool exits, also after an       *)
(* error.                                                                  *)
(***************************************************************************)
MaxAddress == 3

MaxHexLines == 3

\* The data of the lines of the inputs: the k-th line has the k-th word
\* (0xdeadBEEF with capital digits).
DataDigits == <<"7300002a", "00000000", "deadBEEF", "00000001", "ffffffff">>

HexLine(a, k) == Characters("0000000") \o <<HexDigits[a + 1], " ">> \o Characters(DataDigits[k]) \o <<"\n">>

\* Texts of n lines with any addresses up to MaxAddress, in any order.
RECURSIVE HexLines(_)
HexLines(n) ==
  IF n = 0 THEN {<<>>}
  ELSE {t \o HexLine(a, n) : t \in HexLines(n - 1), a \in 0 .. MaxAddress}

\* Lines with comments, white space and carriage-returns, and lines that
\* are not well formed.
OtherHexTexts ==
  {"; comment\n00000001 7300002a ; first\n", "00000000 7300002a\t \n00000002 0000002A\r\n",
   "\n", "; comment", "0000001 7300002a\n", "00000001\t7300002a\n", "00000001 7300002\n",
   "00000001 7300002g\n", "00000001 7300002a", "00000001 7300002a ; c",
   "00000001 7300002a x\n", "00000001 7300002a0\n", "00000000 00000001\n00000002 7300\r002a\n",
   "00000002 0000000", "0000000g 00000000\n", "00000001 00000002\n00000001 00000003\n00000000 00000004\n"}

HexFiles ==
  UNION {HexLines(n) : n \in 0 .. MaxHexLines} \cup {Characters(t) : t \in OtherHexTexts}

\* An iteration of the loop of enchex that ended at the place q: what it
\* wrote, and from which place on the zero words were written.
Encoded(kind, q, text, zeros, data) ==
  [kind |-> kind, pos |-> q, text |-> text, zeros |-> zeros, data |-> data]

\* The first of the eight places from q on that holds no hexadecimal digit,
\* 0 if all do (lines 717-725 and 737-745).
NoDigitAt(s, q) ==
  IF \A k \in q .. q + 7 : hexdigit(Ch(s, k)) >= 0 THEN 0
  ELSE Minimum({k \in q .. q + 7 : hexdigit(Ch(s, k)) < 0})

\* The number of the eight digits from q on.
HexNumber(s, q) ==
  <<hexdigit(s[q]) * 4096 + hexdigit(s[q + 1]) * 256 + hexdigit(s[q + 2]) * 16
      + hexdigit(s[q + 3]),
    hexdigit(s[q + 4]) * 4096 + hexdigit(s[q + 5]) * 256 + hexdigit(s[q + 6]) * 16
      + hexdigit(s[q + 7])>>

\* An encoder that takes the address of the line before once more.
AboveNext(words, a) == Hi(a) = 0 /\ words > Lo(a) + 1

\* 'words > address' and 'words < address' for the number of words written.
Above(words, a) == Hi(a) = 0 /\ words > Lo(a)

\* The zero words of lines 732-736; the model reads addresses below 2^16.
ZeroWords(words, a) == [k \in 1 .. 4 * (IF Lo(a) > words THEN Lo(a) - words ELSE 0) |-> 0]

\* The error of lines 729-731.
BelowParsed(words, a) ==
  "address 0x" \o Join(Hex8(a)) \o " below parsed words 0x"
    \o Join(Hex8(<<0, words - 1>>))

\* Lines 737-766: the data, the white space and the comment after it and
\* the new-line, the first digit of the data at the place q.
EncodeData(s, q, zeros) ==
  LET w == SkipWhiteSpace(s, q + 8)
      e == IF Ch(s, w) = ";" THEN EndOfComment(s, w) ELSE w
  IN  IF NoDigitAt(s, q) # 0 THEN Encoded("error", NoDigitAt(s, q), "invalid data", zeros, <<>>)
      ELSE IF Ch(s, q + 8) \notin {" ", "\t", ";", "\n"}
        THEN Encoded("error", q + 8, "expected white-space after data", zeros, <<>>)
      ELSE IF Ch(s, w) = ";" /\ Ch(s, e) = EOF
        THEN Encoded("error", e, "unexpected end-of-file in comment", zeros, <<>>)
      ELSE IF Ch(s, e) # "\n" THEN Encoded("error", e, "expected new-line", zeros, <<>>)
      ELSE Encoded("line", e, "", zeros, LittleEndian(HexNumber(s, q)))

\* One iteration of the loop of main (lines 705-777) after 'read'
\* characters, with 'words' words written.
EncodeLine(s, read, words) ==
  LET q == read + 1
      ch == Ch(s, q)
  IN  IF ch = EOF THEN Encoded("DONE", q, "", <<>>, <<>>)
      ELSE IF ch = "\n" THEN Encoded("error", q, "invalid empty line", <<>>, <<>>)
      ELSE IF ch = ";"
        THEN IF Ch(s, EndOfComment(s, q)) = EOF
               THEN Encoded("error", EndOfComment(s, q), "unexpected end-of-file in comment",
                            <<>>, <<>>)
               ELSE Encoded("skip", EndOfComment(s, q), "", <<>>, <<>>)
      ELSE IF NoDigitAt(s, q) # 0
        THEN Encoded("error", NoDigitAt(s, q), "invalid address", <<>>, <<>>)
      ELSE IF Ch(s, q + 8) # " "
        THEN Encoded("error", q + 8, "expected space after address", <<>>, <<>>)
      ELSE IF Above(words, HexNumber(s, q))
        THEN Encoded("error", q + 9, BelowParsed(words, HexNumber(s, q)), <<>>, <<>>)
      ELSE EncodeData(s, q + 9, ZeroWords(words, HexNumber(s, q)))

\* The iteration with read_char's error (lines 630-641) at the first
\* carriage-return without a new-line: the zero words are written once the
\* first digit of the data was read.
EncodeOutcome(s, read, words) ==
  LET r == EncodeLine(s, read, words)
      cr == LoneCarriageReturns(s, read, r)
  IN  IF cr # {}
        THEN [kind |-> "error", pos |-> Minimum(cr), seen |-> Minimum(cr) - 1,
              text |-> "missing new-line after carriage-return",
              zeros |-> IF Minimum(cr) > read + 10 THEN r.zeros ELSE <<>>, data |-> <<>>]
        ELSE [kind |-> r.kind, pos |-> r.pos, seen |-> r.pos, text |-> r.text,
              zeros |-> r.zeros, data |-> r.data]

Encode ==
  /\ tool = "enchex"
  /\ exit = "running"
  /\ \E r \in {EncodeOutcome(read_char(input), offset, Len(output) \div 4)} :
       /\ offset' = r.pos
       /\ lineno' = LinenoAfter(read_char(input), r.seen)
       /\ last_read_char' = LastReadAfter(read_char(input), r.seen)
       /\ output' = output \o r.zeros \o r.data
       /\ exit' = CASE r.kind = "DONE" -> "0"
                    [] r.kind = "error" -> "1"
                    [] OTHER -> "running"
       /\ diagnostic' =
            IF r.kind = "error"
              THEN ParseError(LinenoAfter(read_char(input), r.seen),
                              LastReadAfter(read_char(input), r.seen), r.text)
              ELSE <<>>
  /\ UNCHANGED <<revision, NDEBUG, tool, input, instruction_buffer, piped, quiz>>
  /\ UNCHANGED emulator

InitCodec ==
  /\ NoEmulator
  /\ revision = "asreti.c"
  /\ NDEBUG = TRUE
  /\ tool = "enchex"
  /\ input \in HexFiles
  /\ offset = 0
  /\ lineno = 1
  /\ last_read_char = "none"
  /\ output = <<>>
  /\ instruction_buffer = <<>>
  /\ exit = "running"
  /\ diagnostic = <<>>
  /\ piped = <<>>
  /\ quiz = NoQuiz

NextCodec == Encode

SpecCodec == InitCodec /\ [][NextCodec]_vars

(***************************************************************************)
(* What the claims are stated with.  These read the instruction word and   *)
(* the registers directly and use none of the decoder's definitions above. *)
(***************************************************************************)
Halted == pc \in {"halted", "exit"}

\* The last iteration executed an instruction and did not end in an error.
Executed == steps > 0 /\ pc # "error"

Bits31to26(I) == Hi(I) \div 1024

Bits31to27(I) == Hi(I) \div 2048

Bits25to24(I) == (Hi(I) \div 256) % 4

Immediate24(I) == <<Hi(I) % 256, Lo(I)>>

\* i | 0xff000000 when bit 23 of i is set, i otherwise.
SignExtended(i) == IF Hi(i) >= 128 THEN <<Hi(i) + 65280, Lo(i)>> ELSE i

\* (a + b) mod 2^32 on the halves, and d = (a - b) mod 2^32.
WrapSum(a, b) ==
  <<(Hi(a) + Hi(b) + ((Lo(a) + Lo(b)) \div Half)) % Half, (Lo(a) + Lo(b)) % Half>>

IsWrapDifference(d, a, b) == WrapSum(d, b) = a

DestinationName(I) ==
  IF Bits25to24(I) = 0 THEN "PC"
  ELSE IF Bits25to24(I) = 1 THEN "IN1"
  ELSE IF Bits25to24(I) = 2 THEN "IN2"
  ELSE "ACC"

\* The comparison of ACC, as a signed number, with 0 that bits 31..27 name.
Negative(x) == Hi(x) >= 32768

JumpCondition(I, acc) ==
  CASE Bits31to27(I) = 24 -> FALSE
    [] Bits31to27(I) = 25 -> ~Negative(acc) /\ acc # Zero
    [] Bits31to27(I) = 26 -> acc = Zero
    [] Bits31to27(I) = 27 -> ~Negative(acc)
    [] Bits31to27(I) = 28 -> Negative(acc)
    [] Bits31to27(I) = 29 -> acc # Zero
    [] Bits31to27(I) = 30 -> Negative(acc) \/ acc = Zero
    [] Bits31to27(I) = 31 -> TRUE

\* The data words common to two memories are equal.
SameWords(m, n) == \A a \in DOMAIN m \cap DOMAIN n : m[a] = n[a]

(***************************************************************************)
(* C1. Self-loop halting: when the instruction at PC = p leaves PC at p (a *)
(* taken jump with offset 0, or a register write to PC of the value p),    *)
(* the emulator has halted after that one execution and fetches nothing    *)
(* more; the image that is JUMP 0 alone halts after one step with no data  *)
(* word valid and nothing dumped.                                          *)
(***************************************************************************)
JumpZeroAlone == code_file \in {<<<<64512, 0>>>>, <<<<63488, 0>>>>}

C1_SelfLoopHalting ==
  /\ (Executed /\ reti.PC = row.PC) => Halted
  /\ (JumpZeroAlone /\ Halted) =>
       /\ steps = 1
       /\ shadow.valid = {}
       /\ reti = [code |-> code_file, data |-> EmptyMemory,
                  PC |-> Zero, ACC |-> Zero, IN1 |-> Zero, IN2 |-> Zero]
  /\ (JumpZeroAlone /\ pc = "exit") => stdout = <<>>

C1_Witness ==
  /\ code_file = <<<<64512, 0>>>>
  /\ pc = "exit"
  /\ steps = 1
  /\ row.I = <<64512, 0>>
  /\ reti.PC = row.PC

(***************************************************************************)
(* C2. Out-of-range halt: when an iteration starts with PC >= code_len the *)
(* emulator halts, executes nothing and changes no register, memory word   *)
(* or validity bit; it warns of undefined code exactly when PC > code_len, *)
(* so not when PC = code_len (the empty image with PC = 0 included).       *)
(***************************************************************************)
PCBeyond(n) == Hi(reti.PC) > 0 \/ Lo(reti.PC) > n

PCAtOrBeyond(n) == Hi(reti.PC) > 0 \/ Lo(reti.PC) >= n

C2_OutOfRangeHalt ==
  [][(pc = "run" /\ PCAtOrBeyond(Len(reti.code))) =>
       /\ pc' = "halted"
       /\ UNCHANGED <<reti, shadow, steps, row, stored, stdout>>
       /\ IF PCBeyond(Len(reti.code))
            THEN /\ Len(stderr') = Len(stderr) + 1
                 /\ stderr'[Len(stderr')][1] = "warning: stopping at undefined code"
            ELSE stderr' = stderr]_vars

C2_Witness ==
  /\ pc = "halted"
  /\ PCBeyond(Len(reti.code))
  /\ steps > 0
  /\ stderr = <<<<"warning: stopping at undefined code", reti.PC>>>>

(***************************************************************************)
(* C3. Illegal instruction: an executed word of class 00 whose prefix is   *)
(* not one of the ten compute prefixes aborts the run with an error.       *)
(***************************************************************************)
LegalComputePrefixes == {2, 3, 4, 5, 6, 10, 11, 12, 13, 14}

IllegalWord(I) == Bits31to26(I) < 16 /\ Bits31to26(I) \notin LegalComputePrefixes

C3_IllegalInstructionAborts ==
  (steps > 0 /\ IllegalWord(row.I)) => pc = "error"

(***************************************************************************)
(* C4. Jump semantics: a word of class 11 is selected by bits 31..27; the  *)
(* jump is taken iff the comparison of the signed ACC with 0 that it names *)
(* holds; a taken jump sets PC to (PC + signext(i)) mod 2^32, another one  *)
(* to PC + 1; IN1, IN2, ACC, the data memory and the validity are left     *)
(* unchanged.                                                              *)
(***************************************************************************)
C4_JumpSemantics ==
  [][(pc = "run" /\ steps' = steps + 1 /\ Bits31to26(row'.I) >= 48) =>
       /\ row'.PC = reti.PC
       /\ reti'.PC = IF JumpCondition(row'.I, reti.ACC)
                       THEN WrapSum(reti.PC, SignExtended(Immediate24(row'.I)))
                       ELSE WrapSum(reti.PC, <<0, 1>>)
       /\ reti'.IN1 = reti.IN1
       /\ reti'.IN2 = reti.IN2
       /\ reti'.ACC = reti.ACC
       /\ reti'.data = reti.data
       /\ shadow' = shadow
       /\ stderr' = stderr]_vars

\* JUMP= 2 at PC = 5 with ACC = 0 gives PC = 7.
C4_Witness ==
  /\ Executed
  /\ row.I = <<53248, 2>>
  /\ row.PC = <<0, 5>>
  /\ row.ACC = Zero
  /\ reti.PC = <<0, 7>>

\* The same with ACC = 1 gives PC = 6.
C4_NotTaken ==
  /\ Executed
  /\ row.I = <<53248, 2>>
  /\ row.PC = <<0, 5>>
  /\ row.ACC = <<0, 1>>
  /\ reti.PC = <<0, 6>>

(***************************************************************************)
(* C5. Wrapping arithmetic: with a the value of D before the step, ADDI    *)
(* leaves D = (a + signext(i)) mod 2^32 and SUBI D = (a - signext(i)) mod  *)
(* 2^32; ADD leaves D = (a + M[i]) mod 2^32 and SUB D = (a - M[i]) mod     *)
(* 2^32, M[i] being the data word at the unsigned address i.               *)
(***************************************************************************)
C5_WrappingArithmetic ==
  Executed =>
    LET I == row.I
        D == DestinationName(I)
        a == row[D]
        i == Immediate24(I)
    IN  /\ Bits31to26(I) = 3 => reti[D] = WrapSum(a, SignExtended(i))
        /\ Bits31to26(I) = 2 => IsWrapDifference(reti[D], a, SignExtended(i))
        /\ Bits31to26(I) = 11 =>
             i \in DOMAIN reti.data /\ reti[D] = WrapSum(a, reti.data[i])
        /\ Bits31to26(I) = 10 =>
             i \in DOMAIN reti.data /\ IsWrapDifference(reti[D], a, reti.data[i])

\* ADDI ACC 1 with ACC = 0xffffffff wraps to 0.
C5_Witness ==
  /\ Executed
  /\ row.I = <<3840, 1>>
  /\ row.ACC = <<65535, 65535>>
  /\ reti.ACC = Zero

(***************************************************************************)
(* C6. Sign extension: the offset of a taken jump and the operand of SUBI  *)
(* and ADDI is i | 0xff000000 when bit 23 of the immediate i is set and i  *)
(* otherwise, so 0xffffff acts as -1 and 0x800000 as -8388608.             *)
(***************************************************************************)
Bit23(i) == (Hi(i) \div 128) % 2

Operand(i) == IF Bit23(i) = 1 THEN <<65280 + Hi(i), Lo(i)>> ELSE i

C6_SignExtension ==
  Executed =>
    LET I == row.I
        i == Immediate24(I)
        D == DestinationName(I)
        old == IF Bits31to26(I) >= 48 THEN row.PC ELSE row[D]
        new == IF Bits31to26(I) >= 48 THEN reti.PC ELSE reti[D]
        adds == \/ Bits31to26(I) = 3
                \/ Bits31to26(I) >= 48 /\ JumpCondition(I, row.ACC)
        subtracts == Bits31to26(I) = 2
    IN  /\ adds => new = WrapSum(old, Operand(i))
        /\ subtracts => old = WrapSum(new, Operand(i))
        /\ (adds /\ i = <<255, 65535>>) => old = WrapSum(new, <<0, 1>>)
        /\ (subtracts /\ i = <<255, 65535>>) => new = WrapSum(old, <<0, 1>>)
        /\ (adds /\ i = <<128, 0>>) => old = WrapSum(new, <<128, 0>>)
        /\ (subtracts /\ i = <<128, 0>>) => new = WrapSum(old, <<128, 0>>)

\* JUMP -1 at PC = 3 goes to 2.
C6_Witness ==
  /\ Executed
  /\ row.I = <<63743, 65535>>
  /\ row.PC = <<0, 3>>
  /\ reti.PC = <<0, 2>>

(***************************************************************************)
(* C7. Validity monotonicity: a data address that is valid stays valid,    *)
(* and data_hi never decreases from one state to the next.                 *)
(***************************************************************************)
C7_ValidityMonotonic ==
  [][/\ shadow.valid \subseteq shadow'.valid
     /\ ~(Hi(shadow'.data) < Hi(shadow.data))
     /\ Hi(shadow'.data) = Hi(shadow.data) => Lo(shadow'.data) >= Lo(shadow.data)]_vars

\* STORE 0 after STORE 1: the second store is below data_hi = 2.
C7_Witness ==
  /\ Executed
  /\ row.I = <<32768, 0>>
  /\ shadow.valid = {<<0, 0>>, <<0, 1>>}
  /\ DOMAIN stored = {<<0, 0>>, <<0, 1>>}
  /\ shadow.data = <<0, 2>>

(***************************************************************************)
(* C8. Final dump: after the halt the dumped lines are exactly the pairs   *)
(* (a, M[a]) of the valid addresses a < data_hi, one line each, ascending, *)
(* M[a] being the last value stored to a, or the word of the data file if  *)
(* a was never stored to; nothing else is dumped.                          *)
(***************************************************************************)
DumpedAddresses == Addresses(Len(data_file)) \cup DOMAIN stored

DumpedWord(a) == IF a \in DOMAIN stored THEN stored[a] ELSE data_file[Lo(a) + 1]

C8_FinalDump ==
  pc = "exit" =>
    /\ {stdout[k] : k \in 1 .. Len(stdout)} = {<<a, DumpedWord(a)>> : a \in DumpedAddresses}
    /\ Len(stdout) = Cardinality(DumpedAddresses)
    /\ \A k \in 1 .. Len(stdout) - 1 :
         \/ Hi(stdout[k][1]) < Hi(stdout[k + 1][1])
         \/ /\ Hi(stdout[k][1]) = Hi(stdout[k + 1][1])
            /\ Lo(stdout[k][1]) < Lo(stdout[k + 1][1])
    /\ {stdout[k][1] : k \in 1 .. Len(stdout)} =
         {a \in shadow.valid : Hi(a) < Hi(shadow.data)
                               \/ (Hi(a) = Hi(shadow.data) /\ Lo(a) < Lo(shadow.data))}
    /\ \A k \in 1 .. Len(stdout) : stdout[k][2] = reti.data[stdout[k][1]]

\* A dump of a data-file word and a stored word with a hole between them.
C8_Witness ==
  /\ pc = "exit"
  /\ data_file = <<<<0, 7>>>>
  /\ stdout = <<<<<<0, 0>>, <<0, 7>>>>, <<<<0, 2>>, <<0, 5>>>>>>
  /\ <<0, 1>> \notin shadow.valid

(***************************************************************************)
(* C9. The program of the README on an empty data file halts at PC = 4     *)
(* without a warning, and the valid data words are 0x002765bb -> 0,        *)
(* 0x0035bb73 -> 0x00bc4285 and 0x00e5e1ff -> 0 and nothing else.          *)
(***************************************************************************)
C9_ReadmeProgram ==
  (arg = "" /\ code_file = ReadmeCode /\ data_file = <<>>) =>
    /\ pc \in {"start", "run", "halted", "exit"}
    /\ Halted =>
         /\ reti.PC = <<0, 4>>
         /\ steps = 4
         /\ stderr = <<>>
         /\ shadow.valid = {<<39, 26043>>, <<53, 47987>>, <<229, 57855>>}
         /\ reti.data[<<39, 26043>>] = Zero
         /\ reti.data[<<53, 47987>>] = <<188, 17029>>
         /\ reti.data[<<229, 57855>>] = Zero
    /\ pc = "exit" =>
         stdout = << <<<<39, 26043>>, Zero>>,
                     <<<<53, 47987>>, <<188, 17029>>>>,
                     <<<<229, 57855>>, Zero>> >>

C9_Witness ==
  /\ arg = ""
  /\ code_file = ReadmeCode
  /\ data_file = <<>>
  /\ pc = "exit"
  /\ Len(stdout) = 3

(***************************************************************************)
(* C10. Uninitialized read: a memory-reading instruction whose address is  *)
(* >= data_hi or not valid, and no other, triggers the behaviour of the    *)
(* knob: strict aborts the run on such a read, default warns and the step  *)
(* still writes its register and updates PC, quiet completes the step      *)
(* silently.  A run under the strict or the quiet knob therefore executes  *)
(* its instructions up to such a read.                                     *)
(***************************************************************************)
Knob ==
  CASE arg = "--strict" -> "strict"
    [] arg = "--quiet" -> "quiet"
    [] OTHER -> "default"

ReadsMemory(I) ==
  \/ Bits31to26(I) \in 16 .. 27
  \/ Bits31to26(I) \in {10, 11, 12, 13, 14}

ReadAddress(I, in1, in2) ==
  IF Bits31to26(I) \in 20 .. 23 THEN WrapSum(in1, Immediate24(I))
  ELSE IF Bits31to26(I) \in 24 .. 27 THEN WrapSum(in2, Immediate24(I))
  ELSE Immediate24(I)

\* The last iteration read a word that is not valid (a read changes no
\* validity, so the validity after the step is the one the read found).
ReadUninitialized ==
  /\ steps > 0
  /\ ReadsMemory(row.I)
  /\ LET a == ReadAddress(row.I, row.IN1, row.IN2)
     IN  a \notin shadow.valid \/ ~Less(a, shadow.data)

IsReadWarning(line) == line[1] = "warning: read uninitialized"

ReadWarnings == Len(SelectSeq(stderr, IsReadWarning))

LastReadWarning ==
  IF ReadWarnings = 0 THEN <<"none", Zero>>
  ELSE SelectSeq(stderr, IsReadWarning)[ReadWarnings]

\* What the claim says of the default knob.
C10_DefaultKnob ==
  /\ pc # "error"
  /\ ReadWarnings <= steps
  /\ (Executed /\ ReadUninitialized) =>
       /\ LastReadWarning =
            <<"warning: read uninitialized", ReadAddress(row.I, row.IN1, row.IN2)>>
       /\ Bits31to26(row.I) \in 16 .. 27 =>
            reti[DestinationName(row.I)] =
              reti.data[ReadAddress(row.I, row.IN1, row.IN2)]
       /\ DestinationName(row.I) # "PC" => reti.PC = WrapSum(row.PC, <<0, 1>>)
  /\ (Executed /\ ~ReadUninitialized /\ steps = 1) => ReadWarnings = 0

C10_UninitializedReadKnobs ==
  /\ Knob = "strict" => (pc = "error" <=> ReadUninitialized)
  /\ Knob = "quiet" => (pc # "error" /\ ReadWarnings = 0)
  /\ Knob = "default" => C10_DefaultKnob

\* The part of C10 that does not depend on a knob.
C10_WarnsAndContinues == arg = "" => C10_DefaultKnob

(***************************************************************************)
(* C11. Step limit: a run that is given a maximum step count N executes    *)
(* at most N iterations of the loop on any code image, also on a cycle of  *)
(* two instructions that never leaves the image, and then ends with a      *)
(* warning, not with an error.  Stated for N = 3.                          *)
(***************************************************************************)
C11_StepLimit ==
  arg = "--limit=3" =>
    /\ pc # "error"
    /\ steps <= 3

\* STORE 0; JUMP -1: a cycle of two instructions that never sets PC to the
\* address of the instruction itself and never leaves the code.
TwoCycle == <<<<32768, 0>>, <<63743, 65535>>>>

\* The loop of the emulator has no bound of its own: without an option the
\* run of the cycle is never over.
C11_CycleRunsOn ==
  (arg = "" /\ code_file = TwoCycle) => pc \in {"start", "run"}

(***************************************************************************)
(* What the claims on the assembler and the disassembler are stated with.  *)
(***************************************************************************)
\* The first tool runs, the other one runs on its output, and the first one
\* runs again on the output of that.
FirstRun(name) == piped = <<>> /\ tool = name

SecondRun(first) ==
  /\ Len(piped) = 1
  /\ piped[1].tool = first
  /\ tool = IF first = "asreti" THEN "disreti" ELSE "asreti"

ThirdRun(first) == Len(piped) = 2 /\ piped[1].tool = first /\ tool = first

Ended == exit # "running"

\* The characters of a text before its first tab or new-line.
RECURSIVE FirstLine(_)
FirstLine(text) ==
  IF text = <<>> \/ Head(text) \in {"\t", "\n"} THEN <<>>
  ELSE <<Head(text)>> \o FirstLine(Tail(text))

\* The instruction lines with their immediate in the notation the decoder
\* prints: unsigned decimal for loads and stores, 0x-hexadecimal for the
\* bitwise instructions, signed decimal for the arithmetic ones and the
\* jumps.
CanonicalSigned == {"-8388608", "-42", "-1", "0", "1", "42", "8388607"}

CanonicalLines ==
  {m \o " " \o d \o " " \o i : m \in LoadMnemonics, d \in Registers, i \in UnsignedTexts}
  \cup {m \o " " \o i : m \in StoreMnemonics, i \in UnsignedTexts}
  \cup {m \o " " \o d \o " " \o i : m \in BitwiseMnemonics, d \in Registers, i \in HexTexts}
  \cup {m \o " " \o d \o " " \o i :
          m \in ArithmeticMnemonics, d \in Registers, i \in CanonicalSigned}
  \cup {m \o " " \o i : m \in JumpMnemonics, i \in CanonicalSigned}
  \cup {"MOVE " \o s \o " " \o d : s \in Registers, d \in Registers}
  \cup {"NOP"}

\* The text the assembler was started on is one canonical line.
AssembledCanonical ==
  /\ piped[1].tool = "asreti"
  /\ Join(FirstLine(piped[1].input)) \in CanonicalLines
  /\ Join(piped[1].input) \in {Join(FirstLine(piped[1].input)) \o t : t \in Terminators}

(***************************************************************************)
(* C12. Codec round-trip: for each mnemonic with every register operand    *)
(* and every in-range immediate, written in the decoder's canonical form   *)
(* m, the assembler emits a word for the line m, and disassemble_reti_code *)
(* applied to that word reports legal and yields exactly the text m.       *)
(***************************************************************************)
C12_CodecRoundTrip ==
  /\ (FirstRun("asreti") /\ Ended /\ Join(input) \in {m \o "\n" : m \in CanonicalLines}) =>
       /\ exit = "0"
       /\ Len(output) = 4
  /\ (SecondRun("asreti") /\ AssembledCanonical /\ offset > 0) =>
       /\ exit \in {"running", "0"}
       /\ CString(instruction_buffer) = FirstLine(piped[1].input)


(***************************************************************************)
(* C13. Assembler idempotence: for every text T the assembler accepts,     *)
(* every word of assemble(T) is disassembled, and the assembler accepts    *)
(* the text that results and emits byte for byte the output of             *)
(* assemble(T).                                                            *)
(***************************************************************************)
C13_AssemblerIdempotence ==
  /\ (SecondRun("asreti") /\ Ended) => exit = "0"
  /\ (ThirdRun("asreti") /\ Ended) =>
       /\ exit = "0"
       /\ output = piped[1].output

\* Texts for which it does hold: the lines whose word the decoder prints
\* as it was written, such as 'JUMP 1'.
C13_HoldsForJump ==
  (ThirdRun("asreti") /\ Ended /\ revision = "asreti.c"
     /\ piped[1].input = Characters("JUMP 1\n")) =>
    /\ exit = "0"
    /\ output = piped[1].output
    /\ output = <<1, 0, 0, 248>>


(***************************************************************************)
(* C14. Mnemonic acceptance: a new-line terminated line of one of the 26   *)
(* mnemonics followed by its well-formed operands is accepted, and the     *)
(* assembler emits one word whose opcode prefix is that of the instruction *)
(* table; any other letter sequence in the place of the mnemonic is        *)
(* rejected as an invalid instruction.                                     *)
(***************************************************************************)
InRangeTexts == UnsignedTexts \cup SignedTexts \cup HexTexts

WellFormedLines ==
  {m \o " " \o d \o " " \o i :
     m \in LoadMnemonics \cup BitwiseMnemonics \cup ArithmeticMnemonics,
     d \in Registers, i \in InRangeTexts}
  \cup {m \o " " \o i : m \in StoreMnemonics \cup JumpMnemonics, i \in InRangeTexts}
  \cup {"MOVE " \o s \o " " \o d : s \in Registers, d \in Registers}
  \cup {"NOP"}

\* The instruction table: the number of opcode bits and their value.
OpcodeTable ==
  [m \in LoadStoreMnemonics \cup BitwiseMnemonics \cup ArithmeticMnemonics
         \cup JumpMnemonics \cup {"MOVE", "NOP"} |->
     CASE m = "LOAD" -> <<4, 4>>     [] m = "LOADIN1" -> <<4, 5>>
       [] m = "LOADIN2" -> <<4, 6>>  [] m = "LOADI" -> <<4, 7>>
       [] m = "STORE" -> <<4, 8>>    [] m = "STOREIN1" -> <<4, 9>>
       [] m = "STOREIN2" -> <<4, 10>> [] m = "MOVE" -> <<4, 11>>
       [] m = "SUBI" -> <<6, 2>>     [] m = "ADDI" -> <<6, 3>>
       [] m = "OPLUSI" -> <<6, 4>>   [] m = "ORI" -> <<6, 5>>
       [] m = "ANDI" -> <<6, 6>>     [] m = "SUB" -> <<6, 10>>
       [] m = "ADD" -> <<6, 11>>     [] m = "OPLUS" -> <<6, 12>>
       [] m = "OR" -> <<6, 13>>      [] m = "AND" -> <<6, 14>>
       [] m = "NOP" -> <<5, 24>>     [] m = "JUMP>" -> <<5, 25>>
       [] m = "JUMP=" -> <<5, 26>>   [] m = "JUMP>=" -> <<5, 27>>
       [] m = "JUMP<" -> <<5, 28>>   [] m = "JUMP!=" -> <<5, 29>>
       [] m = "JUMP<=" -> <<5, 30>>  [] m = "JUMP" -> <<5, 31>>]

\* The characters of a text before its first space, tab or new-line.
RECURSIVE FirstWord(_)
FirstWord(text) ==
  IF text = <<>> \/ Head(text) \in {" ", "\t", "\n"} THEN <<>>
  ELSE <<Head(text)>> \o FirstWord(Tail(text))

\* The four bytes are a word with the opcode bits of the mnemonic.
HasOpcodeOf(bytes, m) ==
  /\ Len(bytes) = 4
  /\ bytes[4] \div (2 ^ (8 - OpcodeTable[m][1])) = OpcodeTable[m][2]

\* Letter sequences that are no mnemonic.
OtherNames == {"HALT", "LOADX", "LOA", "ADDX", "MOV", "NO", "nop", "ORR", "SUBS"}

C14_MnemonicAcceptance ==
  /\ (FirstRun("asreti") /\ Ended /\ Join(input) \in {l \o "\n" : l \in WellFormedLines}) =>
       /\ exit = "0"
       /\ HasOpcodeOf(output, Join(FirstWord(input)))
  /\ (FirstRun("asreti") /\ Ended /\ Join(FirstWord(input)) \in OtherNames) =>
       /\ exit = "1"
       /\ output = <<>>
       /\ diagnostic[1].text = "invalid instruction"

\* What src/asreti.c does accept: the lines of all mnemonics but LOADIN1,
\* LOADIN2, JUMP< and JUMP<= with a decimal immediate.
C14_AcceptedByAsreti ==
  (/\ FirstRun("asreti") /\ Ended /\ revision = "asreti.c"
   /\ Join(input) \in {l \o "\n" : l \in WellFormedLines}
   /\ Join(FirstWord(input)) \notin {"LOADIN1", "LOADIN2", "JUMP<", "JUMP<="}
   /\ \A k \in 1 .. Len(input) : input[k] # "x") =>
    /\ exit = "0"
    /\ HasOpcodeOf(output, Join(FirstWord(input)))


(***************************************************************************)
(* C15. Immediate bounds: the assembler accepts an immediate if and only   *)
(* if it is within bounds, a non-negative n exactly when n <= 0xFFFFFF and *)
(* a negative -n exactly when 0 < n <= 0x800000; a line with any other     *)
(* immediate, -0 included, ends in a parse error and no word is emitted.   *)
(***************************************************************************)
\* A line up to its immediate.
ImmediateHeads ==
  {m \o " " \o d : m \in LoadMnemonics \cup BitwiseMnemonics \cup ArithmeticMnemonics,
                   d \in Registers}
  \cup StoreMnemonics \cup JumpMnemonics

LinesWith(heads, immediates, end) == {h \o " " \o i \o end : h \in heads, i \in immediates}

C15_ImmediateBounds ==
  (FirstRun("asreti") /\ Ended) =>
    /\ Join(input) \in LinesWith(ImmediateHeads, InRangeTexts, "\n") =>
         /\ exit = "0"
         /\ Len(output) = 4
    /\ Join(input) \in LinesWith(ImmediateHeads, BeyondTexts, "\n") =>
         /\ exit = "1"
         /\ output = <<>>
         /\ diagnostic # <<>>

\* What holds of it.  Immediates beyond the bounds are rejected by both
\* revisions, whatever follows them.
C15_BeyondBoundsRejected ==
  (FirstRun("asreti") /\ Ended
     /\ \E t \in Terminators : Join(input) \in LinesWith(ImmediateHeads, BeyondTexts, t)) =>
    /\ exit \in {"1", "SIGABRT"}
    /\ output = <<>>

\* src/asreti.c accepts the decimal immediates within the bounds (after the
\* mnemonics it knows), and part_002 accepts those that a tab follows
\* (after registers other than PC).
AsretiHeads ==
  {m \o " " \o d :
     m \in (LoadMnemonics \ {"LOADIN1", "LOADIN2"}) \cup BitwiseMnemonics
              \cup ArithmeticMnemonics,
     d \in Registers}
  \cup StoreMnemonics \cup (JumpMnemonics \ {"JUMP<", "JUMP<="})

Part002Heads ==
  {m \o " " \o d : m \in LoadMnemonics \cup BitwiseMnemonics \cup ArithmeticMnemonics,
                   d \in Registers \ {"PC"}}
  \cup StoreMnemonics \cup JumpMnemonics

C15_WithinBoundsAccepted ==
  (FirstRun("asreti") /\ Ended) =>
    /\ (/\ revision = "asreti.c"
        /\ \E t \in Terminators :
             Join(input) \in LinesWith(AsretiHeads, UnsignedTexts \cup SignedTexts, t)) =>
         /\ exit = "0"
         /\ Len(output) = 4
    /\ (/\ revision = "part_002"
        /\ Join(input) \in LinesWith(Part002Heads, InRangeTexts, "\t\n")) =>
         /\ exit = "0"
         /\ Len(output) = 4


(***************************************************************************)
(* C16. Negative immediate encoding: for 0 < n <= 2^23 the assembler       *)
(* stores the immediate -n in bits 23..0 as (~n + 1) & 0xFFFFFF and sets   *)
(* no bit above bit 23 from it; the line 'SUBI ACC -1' is assembled to the *)
(* word 0x0BFFFFFF, the bytes ff ff ff 0b.                                 *)
(***************************************************************************)
\* (~n + 1) & 0xFFFFFF for the negative immediates of the inputs, lowest
\* byte first: 0x800000, 0xFFFFD6 and 0xFFFFFF.
NegativeBytes ==
  [i \in SignedTexts |->
     CASE i = "-8388608" -> <<0, 0, 128>>
       [] i = "-42" -> <<214, 255, 255>>
       [] i = "-1" -> <<255, 255, 255>>]

\* A mnemonic with its register, if it has one, and bits 31..24 of its word.
OperandHeads ==
  {<<m, d>> : m \in LoadMnemonics \cup BitwiseMnemonics \cup ArithmeticMnemonics,
              d \in Registers}
  \cup {<<m, "">> : m \in StoreMnemonics \cup JumpMnemonics}

HeadText(h) == IF h[2] = "" THEN h[1] ELSE h[1] \o " " \o h[2]

RegisterBits(d) ==
  CASE d = "PC" -> 0 [] d = "IN1" -> 1 [] d = "IN2" -> 2 [] d = "ACC" -> 3 [] OTHER -> 0

TopByte(h) == OpcodeTable[h[1]][2] * 2 ^ (8 - OpcodeTable[h[1]][1]) + RegisterBits(h[2])

\* Whenever a word is emitted for a line with a negative immediate, it
\* holds the immediate in two's complement below the bits of the head.
C16_StoredAsTwosComplement ==
  (FirstRun("asreti") /\ Ended /\ Len(output) = 4) =>
    \A h \in OperandHeads, i \in SignedTexts, t \in Terminators :
      Join(input) = HeadText(h) \o " " \o i \o t =>
        /\ SubSeq(output, 1, 3) = NegativeBytes[i]
        /\ output[4] = TopByte(h)

C16_NegativeImmediate ==
  /\ C16_StoredAsTwosComplement
  /\ (FirstRun("asreti") /\ Ended /\ Join(input) = "SUBI ACC -1\n") =>
       /\ exit = "0"
       /\ output = <<255, 255, 255, 11>>

\* src/asreti.c assembles the line as the claim says.
C16_AsretiScenario ==
  (FirstRun("asreti") /\ Ended /\ revision = "asreti.c" /\ Join(input) = "SUBI ACC -1\n") =>
    /\ exit = "0"
    /\ output = <<255, 255, 255, 11>>


(***************************************************************************)
(* C17. LOADI scenario: the single line 'LOADI ACC 42' with its new-line   *)
(* is assembled to exactly the four bytes 2a 00 00 74, and the             *)
(* disassembler prints that word as 'LOADI ACC 42'.                        *)
(***************************************************************************)
C17_LoadiScenario ==
  /\ (FirstRun("asreti") /\ Ended /\ Join(input) = "LOADI ACC 42\n") =>
       /\ exit = "0"
       /\ output = <<42, 0, 0, 116>>
  /\ (tool = "disreti" /\ input = <<42, 0, 0, 116>> /\ offset = 4) =>
       /\ exit = "running"
       /\ CString(instruction_buffer) = Characters("LOADI ACC 42")

\* What the tools do: src/asreti.c emits 2a 00 00 73, the word of the
\* instruction table (0111 00, D = 11), and the disassembler prints the
\* register of bits 27..26 for either word.
C17_AsIs ==
  /\ (FirstRun("asreti") /\ Ended /\ revision = "asreti.c"
        /\ Join(input) = "LOADI ACC 42\n") =>
       /\ exit = "0"
       /\ output = <<42, 0, 0, 115>>
  /\ (tool = "disreti" /\ input = <<42, 0, 0, 115>> /\ offset = 4) =>
       CString(instruction_buffer) = Characters("LOADI PC 42")
  /\ (tool = "disreti" /\ input = <<42, 0, 0, 116>> /\ offset = 4) =>
       CString(instruction_buffer) = Characters("LOADI IN1 42")


(***************************************************************************)
(* C18. Little-endian output: for every instruction word w the assembler   *)
(* emits it writes exactly four bytes, w & 0xFF, (w >> 8) & 0xFF,          *)
(* (w >> 16) & 0xFF and (w >> 24) & 0xFF in this order, and the word       *)
(* readers of the disassembler and of the emulator (on a host that keeps   *)
(* the lowest byte first) get w back from them.                            *)
(***************************************************************************)
\* Bits 7..0, 15..8 and 23..16 of the immediates of the inputs that are
\* within the bounds.
ImmediateBytes(i) ==
  CASE i \in {"0", "0x0"} -> <<0, 0, 0>>
    [] i = "1" -> <<1, 0, 0>>
    [] i \in {"42", "0x2a"} -> <<42, 0, 0>>
    [] i = "8388607" -> <<255, 255, 127>>
    [] i \in {"8388608", "0x800000", "-8388608"} -> <<0, 0, 128>>
    [] i \in {"16777215", "0xffffff", "-1"} -> <<255, 255, 255>>
    [] i = "-42" -> <<214, 255, 255>>

\* The lines of the inputs with one instruction, each with the bytes 7..0,
\* 15..8, 23..16 and 31..24 of its word in the instruction table.
WordsOfLines ==
  {<<HeadText(h) \o " " \o i \o t, ImmediateBytes(i) \o <<TopByte(h)>>>> :
     h \in OperandHeads, i \in InRangeTexts, t \in Terminators}
  \cup {<<"MOVE " \o S \o " " \o D \o t, <<0, 0, 0, 176 + 4 * RegisterBits(S) + RegisterBits(D)>>>> :
          S \in Registers, D \in Registers, t \in Terminators}
  \cup {<<"NOP" \o t, <<0, 0, 0, 192>>>> : t \in {"\n", " \n"}}

\* "%02x" of a byte.
TwoHex(byte) == <<HexDigits[(byte \div 16) + 1], HexDigits[(byte % 16) + 1]>>

\* The last column of the first line disreti wrote: the word it read.
CodeColumn == SubSeq(output, 34, 41)

C18_LittleEndianOutput ==
  /\ (FirstRun("asreti") /\ exit = "0") =>
       \A l \in WordsOfLines : Join(input) = l[1] => output = l[2]
  /\ (SecondRun("asreti") /\ output # <<>>) =>
       CodeColumn = TwoHex(input[4]) \o TwoHex(input[3]) \o TwoHex(input[2])
                      \o TwoHex(input[1])
  /\ (tool = "emreti" /\ pc # "start") =>
       /\ Len(reti.code) = Len(input) \div 4
       /\ \A k \in 1 .. Len(reti.code) :
            /\ Hi(reti.code[k]) = input[4 * k] * 256 + input[4 * k - 1]
            /\ Lo(reti.code[k]) = input[4 * k - 2] * 256 + input[4 * k - 3]

\* 'SUBI ACC -1' was assembled to ff ff ff 0b, and disreti has read the
\* word 0x0bffffff from these bytes.
C18_Witness ==
  /\ SecondRun("asreti")
  /\ Join(piped[1].input) = "SUBI ACC -1\n"
  /\ input = <<255, 255, 255, 11>>
  /\ offset = 4
  /\ CodeColumn = Characters("0bffffff")


(***************************************************************************)
(* C19. Decode legality: disassemble_reti_code returns false, with the     *)
(* text ILLEGAL, exactly for the words of class 00 whose bits 29..26 are   *)
(* not in {2, 3, 4, 5, 6, 10, 11, 12, 13, 14}; for every other word it     *)
(* returns true with the mnemonic of the instruction table.                *)
(***************************************************************************)
\* disreti was started on a file of one word and has read it.
OneWordRead == FirstRun("disreti") /\ Len(input) = 4 /\ offset = 4

IllegalRead ==
  /\ input[4] \div 64 = 0
  /\ (input[4] \div 4) % 16 \notin {2, 3, 4, 5, 6, 10, 11, 12, 13, 14}

\* The mnemonic whose opcode bits are the top bits of the word.
TableMnemonic ==
  CHOOSE m \in DOMAIN OpcodeTable :
    input[4] \div (2 ^ (8 - OpcodeTable[m][1])) = OpcodeTable[m][2]

C19_DecodeLegality ==
  OneWordRead =>
    IF IllegalRead
      THEN /\ exit = "1"
           /\ CString(instruction_buffer) = Characters("ILLEGAL")
      ELSE /\ exit \in {"running", "0"}
           /\ FirstWord(CString(instruction_buffer)) = Characters(TableMnemonic)

\* What holds of it: a build with -DNDEBUG returns false exactly for the
\* illegal words, and the mnemonic is that of the table for the loads, for
\* STOREIN2 and for all legal words of class 00 and 11 but OPLUSI and JUMP<=.
C19_AsIs ==
  (OneWordRead /\ NDEBUG) =>
    /\ IllegalRead <=> exit = "1"
    /\ exit \in {"1", "running", "0"}
    /\ IllegalRead => CString(instruction_buffer) = Characters("ILLEGA")
    /\ (~IllegalRead /\ input[4] \div 64 = 2) =>
         FirstWord(CString(instruction_buffer)) = Characters("STOREIN2")
    /\ (~IllegalRead /\ input[4] \div 64 # 2
          /\ TableMnemonic \notin {"OPLUSI", "JUMP<="}) =>
         FirstWord(CString(instruction_buffer)) = Characters(TableMnemonic)


(***************************************************************************)
(* C20. Bounded disassembly: for every word the text that                  *)
(* disassemble_reti_code writes, with its terminator, occupies at most 32  *)
(* bytes: 'length < disassembled_reti_code_length' holds and the           *)
(* terminator lies inside the buffer.                                      *)
(***************************************************************************)
C20_BoundedDisassembly ==
  /\ Len(instruction_buffer) <= disassembled_reti_code_length
  /\ instruction_buffer # <<>> =>
       /\ instruction_buffer[Len(instruction_buffer)] = NUL
       /\ Len(instruction_buffer) - 1 < disassembled_reti_code_length

\* The longest text, 21 characters and the terminator.
C20_Witness ==
  /\ tool = "disreti"
  /\ offset = 4
  /\ input = <<255, 255, 255, 140>>
  /\ Len(instruction_buffer) = 22
  /\ CString(instruction_buffer) = Characters("STOREIN2 ACC 16777215")


(***************************************************************************)
(* C21. Empty and comment lines: a line whose first character after white  *)
(* space is ';' is skipped up to its new-line and emits no word; a line    *)
(* with no token before its new-line is rejected with 'unexpected empty    *)
(* line'; comment lines before the first and after the last instruction    *)
(* change no emitted word.  (A carriage-return without new-line is an      *)
(* error of its own and is left aside.)                                    *)
(***************************************************************************)
\* The first new-line from q on comes before any carriage-return and before
\* the end of the text.
RECURSIVE HasNewLine(_, _)
HasNewLine(s, q) ==
  IF Ch(s, q) = "\n" THEN TRUE
  ELSE IF Ch(s, q) \in {EOF, "\r"} THEN FALSE
  ELSE HasNewLine(s, q + 1)

\* The first place from q on that holds a new-line.
RECURSIVE NewLineFrom(_, _)
NewLineFrom(s, q) == IF Ch(s, q) \in {"\n", EOF} THEN q ELSE NewLineFrom(s, q + 1)

\* A text without its comment lines: the lines with a new-line whose first
\* character after spaces and tabs is ';'.
RECURSIVE WithoutCommentLines(_)
WithoutCommentLines(text) ==
  IF text = <<>> THEN <<>>
  ELSE IF NewLineFrom(text, 1) > Len(text) THEN text
  ELSE (IF Ch(text, SkipWhiteSpace(text, 1)) = ";" THEN <<>>
        ELSE SubSeq(text, 1, NewLineFrom(text, 1)))
       \o WithoutCommentLines(SubSeq(text, NewLineFrom(text, 1) + 1, Len(text)))

\* What a whole run of the assembler on the characters s writes, from
\* 'read' characters on.
EmittedBefore(code, rest) ==
  [out |-> IF rest.end = "SIGABRT" THEN <<>> ELSE LittleEndian(code) \o rest.out,
   end |-> rest.end]

RECURSIVE Emitted(_, _, _, _)
EmittedAfter(rev, ndebug, s, r) ==
  CASE r.kind = "DONE" -> [out |-> <<>>, end |-> "0"]
    [] r.kind = "error" -> [out |-> <<>>, end |-> "1"]
    [] r.kind = "abort" -> [out |-> <<>>, end |-> "SIGABRT"]
    [] r.kind = "word" -> EmittedBefore(r.code, Emitted(rev, ndebug, s, r.pos))
    [] OTHER -> Emitted(rev, ndebug, s, r.pos)

Emitted(rev, ndebug, s, read) == EmittedAfter(rev, ndebug, s, Outcome(rev, ndebug, s, read))

HasCommentLine == WithoutCommentLines(input) # input

C21_SkipsAndRejects ==
  (tool = "asreti" /\ exit = "running") =>
    /\ (Ch(read_char(input), offset + 1) = ";" /\ HasNewLine(read_char(input), offset + 1)) =>
         /\ offset' = NewLineFrom(read_char(input), offset + 1)
         /\ output' = output
         /\ exit' = "running"
    /\ Ch(read_char(input), offset + 1) \in {" ", "\t"} =>
         /\ offset' = offset + 1
         /\ output' = output
         /\ exit' = "running"
    /\ Ch(read_char(input), offset + 1) = "\n" =>
         /\ output' = output
         /\ exit' = "1"
         /\ diagnostic'[1].text = "unexpected empty line"

\* A run on a text with comment lines ends as the run on the text without
\* them, with the same words written.
C21_SameWords ==
  (FirstRun("asreti") /\ Ended /\ HasCommentLine /\ "\r" \notin Range(read_char(input))) =>
    /\ output = Emitted(revision, NDEBUG, read_char(WithoutCommentLines(input)), 0).out
    /\ exit = Emitted(revision, NDEBUG, read_char(WithoutCommentLines(input)), 0).end

C21_CommentAndEmptyLines == [][C21_SkipsAndRejects]_vars /\ []C21_SameWords

\* A comment line before an instruction and one after it: the word of the
\* instruction alone was written.
C21_Witness ==
  /\ FirstRun("asreti")
  /\ exit = "0"
  /\ input \in {Characters("; a comment\nLOADI ACC 42\t\n"),
                Characters("LOADI ACC 42\t\n; a comment\n")}
  /\ output = <<42, 0, 0, 115>>


(***************************************************************************)
(* C22. New-line required: after the last operand the assembler accepts    *)
(* any number of spaces or tabs and an optional ';' comment and then       *)
(* requires a new-line; an instruction followed by any other character,    *)
(* or by the end of the file before the new-line (also inside the          *)
(* comment), is a parse error and its word is not emitted.                 *)
(***************************************************************************)
EndedWord(h) ==
  CASE h = "LOADI ACC 42" -> <<42, 0, 0, 115>>
    [] h = "MOVE ACC IN1" -> <<0, 0, 0, 189>>
    [] h = "JUMP 1" -> <<1, 0, 0, 248>>
    [] h = "NOP" -> <<0, 0, 0, 192>>

RunOnEndedLine == FirstRun("asreti") /\ Ended /\ input \in EndedLines

C22_NewLineRequired ==
  RunOnEndedLine =>
    \A h \in EndedHeads :
      /\ \A e \in NewLineEnds :
           input = Characters(h \o e) => exit = "0" /\ output = EndedWord(h)
      /\ \A e \in OtherEnds :
           input = Characters(h \o e) => exit = "1" /\ output = <<>>

\* What holds: src/asreti.c does as the claim says; part_002 rejects what
\* the claim rejects, and accepts the ends of the claim that start with a
\* tab (after "NOP": with a space).
TabEnds == {"\t\n", "\t;c\n", "\t \t; c ;\n"}

C22_AsIs ==
  RunOnEndedLine =>
    \A h \in EndedHeads :
      /\ \A e \in OtherEnds :
           input = Characters(h \o e) => exit \in {"1", "SIGABRT"} /\ output = <<>>
      /\ \A e \in NewLineEnds :
           input = Characters(h \o e) =>
             IF revision = "asreti.c" \/ (h # "NOP" /\ e \in TabEnds)
                  \/ (h = "NOP" /\ e \in {" \n", " \t \n", " ; c\n"})
               THEN exit = "0" /\ output = EndedWord(h)
               ELSE exit \in {"1", "SIGABRT"} /\ output = <<>>

(***************************************************************************)
(* C23. Generator guarantee: in the program ranreti emits (its printed     *)
(* lines, in order, as assembled) no instruction sets PC to its own        *)
(* address and every jump at position p targets an address in [0, L], L    *)
(* the number of emitted instructions; so emulating it never stops in a    *)
(* self-loop and never with the warning about undefined code.              *)
(***************************************************************************)
\* The emulator runs on the code the assembler made of ranreti's lines.
GeneratedRun == tool = "emreti" /\ Len(piped) = 2 /\ piped[1].tool = "ranreti"

\* The words with one of the prefixes 11001 .. 11111.
IsJump(I) == Bits31to27(I) \in 25 .. 31

\* The 24-bit immediate as a signed number.
Signed24(I) ==
  IF Hi(I) % 256 >= 128 THEN ((Hi(I) % 256) * Half + Lo(I)) - 16777216
  ELSE (Hi(I) % 256) * Half + Lo(I)

TargetsInside(code) ==
  \A k \in 1 .. Len(code) : IsJump(code[k]) => (k - 1) + Signed24(code[k]) \in 0 .. Len(code)

StoppedInSelfLoop == pc \in {"halted", "exit"} /\ ~OutsideCode(reti.PC, shadow.code)

WarnedUndefined ==
  \E k \in 1 .. Len(stderr) : stderr[k][1] = "warning: stopping at undefined code"

C23_GeneratorGuarantee ==
  GeneratedRun => TargetsInside(code_file) /\ ~StoppedInSelfLoop /\ ~WarnedUndefined

\* What holds: counted with the 'pc' of the generator's loop, which also
\* counts the words that are not printed, every jump that is generated
\* targets an address in [0, instructions] other than its own, and no
\* generated word has the register bits 25..24 at zero.
C23_AsGenerated ==
  \A instructions \in 0 .. MaxInstructions :
    \A p \in 0 .. instructions - 1 :
      \A code \in Generated(p, instructions) :
        /\ (Hi(code) \div 256) % 4 # 0
        /\ IsJump(code) =>
             /\ p + Signed24(code) \in 0 .. instructions
             /\ Signed24(code) # 0


(***************************************************************************)
(* C24.  The words of the generators.                                      *)
(***************************************************************************)
\* The value of a hexadecimal digit, and the word of eight of them.
HexValue(ch) == CHOOSE n \in 0 .. 15 : HexDigits[n + 1] = ch

WordOfHex(h) ==
  <<HexValue(h[1]) * 4096 + HexValue(h[2]) * 256 + HexValue(h[3]) * 16 + HexValue(h[4]),
    HexValue(h[5]) * 4096 + HexValue(h[6]) * 256 + HexValue(h[7]) * 16 + HexValue(h[8])>>

\* What ranreti has printed in this run, if it ran.
RanretiLines ==
  IF tool = "ranreti" THEN output
  ELSE IF piped # <<>> /\ piped[1].tool = "ranreti" THEN piped[1].output
  ELSE <<>>

\* The words of the lines of ranreti: the eight digits that end each line
\* after the first, which is the line of the seed.
RanretiWords ==
  {WordOfHex(SubSeq(RanretiLines, k - 8, k - 1)) :
     k \in {n \in Len(Header(0)) + 1 .. Len(RanretiLines) : RanretiLines[n] = "\n"}}

\* The words that a generator has produced: those ranreti printed and the
\* one of the last question of retiquiz.
ProducedWords ==
  RanretiWords \cup (IF tool = "retiquiz" /\ quiz.asked > 0 THEN {quiz.code} ELSE {})

\* A word whose irrelevant fields are zero.
BitwiseValid(I) ==
  CASE Hi(I) < 16384 -> Bits31to26(I) \in LegalComputePrefixes
    [] Hi(I) \in 16384 .. 32767 -> (Hi(I) \div 1024) % 4 = 0
    [] Hi(I) \in 32768 .. 45055 -> (Hi(I) \div 256) % 16 = 0
    [] Hi(I) \in 45056 .. 49151 -> Immediate24(I) = <<0, 0>>
    [] OTHER -> /\ (Hi(I) \div 256) % 8 = 0
                /\ Bits31to27(I) \in {24, 31} => Immediate24(I) = <<0, 0>>

\* C24: every instruction word that a program generator produces is
\* bitwise valid: a class-00 word has one of the ten legal prefixes, a
\* LOAD-class word has bits 27..26 zero, a word of STORE, STOREIN1 or
\* STOREIN2 has bits 27..24 zero, a MOVE word has a zero immediate, a
\* jump-class word has bits 26..24 zero, and NOP and JUMP have a zero
\* immediate.
C24_GeneratorFieldValidity == \A code \in ProducedWords : BitwiseValid(code)

\* What holds as the code is: the words of the questions of retiquiz are
\* bitwise valid, and so are the class-00 prefixes of ranreti; but ranreti
\* leaves no word with bits 25..24 zero, so that none of its stores and
\* jumps is bitwise valid.
C24_AsIs ==
  /\ tool = "retiquiz" /\ quiz.asked > 0 => BitwiseValid(quiz.code)
  /\ \A code \in RanretiWords :
       /\ Hi(code) < 16384 => BitwiseValid(code)
       /\ Bits25to24(code) # 0
       /\ Hi(code) \in 32768 .. 45055 \/ Hi(code) >= 49152 => ~BitwiseValid(code)

(***************************************************************************)
(* C25.  The addresses of the lines that enchex reads.                     *)
(***************************************************************************)
\* A run of enchex on lines '0000000a dddddddd': the number of its lines,
\* the address of the k-th line and its data, which is the k-th word of
\* DataDigits.
WellFormedHex == FirstRun("enchex") /\ input \in UNION {HexLines(n) : n \in 0 .. MaxHexLines}

HexLineCount == Len(input) \div 18

AddressOfLine(k) == IndexOf(HexDigits, input[18 * (k - 1) + 8]) - 1

DataWords == <<<<29440, 42>>, <<0, 0>>, <<57005, 48879>>, <<0, 1>>, <<65535, 65535>>>>

NonDecreasing == \A k \in 1 .. HexLineCount - 1 : AddressOfLine(k) <= AddressOfLine(k + 1)

Increasing == \A k \in 1 .. HexLineCount - 1 : AddressOfLine(k) < AddressOfLine(k + 1)

\* The four bytes of the output at the word index a.
OutputWord(a) == SubSeq(output, 4 * a + 1, 4 * a + 4)

\* The word that the first n lines give the address a: the data of the
\* line that names it, zero if none does.
NamedWord(a, n) ==
  IF \E k \in 1 .. n : AddressOfLine(k) = a
    THEN LET w == DataWords[CHOOSE k \in 1 .. n : AddressOfLine(k) = a]
         IN  <<Lo(w) % 256, Lo(w) \div 256, Hi(w) % 256, Hi(w) \div 256>>
    ELSE <<0, 0, 0, 0>>

\* The output has a word for every address up to the one of the last line.
ZeroFilled ==
  /\ Len(output) = IF HexLineCount = 0 THEN 0 ELSE 4 * (AddressOfLine(HexLineCount) + 1)
  /\ \A a \in 0 .. (Len(output) \div 4) - 1 : OutputWord(a) = NamedWord(a, HexLineCount)

\* C25 as stated: enchex accepts the lines if and only if their addresses
\* are monotonically nondecreasing (a lower address than an earlier one is
\* a parse error, an equal or higher one is accepted), and then the word at
\* index a of the output is the data of the line with address a, and zero
\* for every address below the highest one that no line names.
C25_NonDecreasingAddresses ==
  WellFormedHex /\ Ended =>
    /\ exit = "0" <=> NonDecreasing
    /\ exit = "0" => ZeroFilled

\* The first line whose address is not above the one of the line before.
FirstNotAbove ==
  CHOOSE k \in 2 .. HexLineCount :
    /\ AddressOfLine(k) <= AddressOfLine(k - 1)
    /\ \A j \in 2 .. k - 1 : AddressOfLine(j) > AddressOfLine(j - 1)

\* C25, amended: enchex accepts the lines if and only if their addresses
\* are strictly increasing: a line whose address is lower than or equal to
\* the one of an earlier line is the parse error 'address ... below parsed
\* words ...' at that line.  For every skipped address it emits one zero
\* word, so that the word at index a of the output is the data of the line
\* with address a, and zero for every address below the highest one that no
\* line names.
C25_IncreasingAddresses ==
  WellFormedHex /\ Ended =>
    /\ exit = "0" <=> Increasing
    /\ exit = "0" => ZeroFilled
    /\ exit # "0" =>
         /\ exit = "1"
         /\ diagnostic[1].line = FirstNotAbove
         /\ SubSeq(diagnostic[1].text, 1, 7) = "address"
         /\ Len(output) = 4 * (AddressOfLine(FirstNotAbove - 1) + 1)
         /\ \A a \in 0 .. (Len(output) \div 4) - 1 :
              OutputWord(a) = NamedWord(a, FirstNotAbove - 1)

\* Two lines were accepted that skip two addresses.
C25_Witness ==
  /\ WellFormedHex /\ Ended /\ exit = "0"
  /\ HexLineCount = 2
  /\ Len(output) = 4 * (HexLineCount + 2)

(***************************************************************************)
(* C26 to C30.  One step of the emulator, from the state before it to the  *)
(* state after it.                                                         *)
(***************************************************************************)
\* A step of the loop was executed: the instruction at PC.
Stepped == steps' = steps + 1

Fetched == reti.code[Lo(reti.PC) + 1]

Bits31to28(I) == Hi(I) \div 4096

\* The data words and validity bits other than those of the address a are
\* as before.
SameMemoryBut(a) ==
  /\ DOMAIN reti'.data \ {a} = DOMAIN reti.data \ {a}
  /\ \A b \in DOMAIN reti.data \ {a} : reti'.data[b] = reti.data[b]
  /\ shadow'.valid \ {a} = shadow.valid \ {a}

\* C26: STORE i, STOREIN1 i and STOREIN2 i write the value that ACC had at
\* the start of the step to the data address a = i, (IN1 + i) mod 2^32 and
\* (IN2 + i) mod 2^32 (i unsigned): after the step M[a] = ACC, a is valid
\* and data_hi >= a + 1; every other data word and validity bit and IN1,
\* IN2 and ACC are unchanged, and PC is PC + 1.
C26_StoreSemantics ==
  [][Stepped /\ Bits31to28(Fetched) \in {8, 9, 10} =>
       LET i == Immediate24(Fetched)
           a == CASE Bits31to28(Fetched) = 8 -> i
                  [] Bits31to28(Fetched) = 9 -> WrapSum(reti.IN1, i)
                  [] Bits31to28(Fetched) = 10 -> WrapSum(reti.IN2, i)
       IN  /\ pc' \in {"run", "halted"}
           /\ a \in DOMAIN reti'.data /\ reti'.data[a] = reti.ACC
           /\ a \in shadow'.valid
           /\ Hi(a) < Hi(shadow'.data)
                \/ (Hi(a) = Hi(shadow'.data) /\ Lo(a) < Lo(shadow'.data))
           /\ SameMemoryBut(a)
           /\ reti'.IN1 = reti.IN1 /\ reti'.IN2 = reti.IN2 /\ reti'.ACC = reti.ACC
           /\ reti'.PC = WrapSum(reti.PC, <<0, 1>>)]_vars

\* STOREIN2 1 with IN2 = 0xffffffff has written ACC = 0x80000000 to the
\* address 0.
C26_Witness ==
  /\ Executed
  /\ Bits31to28(row.I) = 10 /\ Immediate24(row.I) = <<0, 1>>
  /\ row.IN2 = <<65535, 65535>>
  /\ row.ACC = <<32768, 0>>
  /\ reti.data[<<0, 0>>] = <<32768, 0>>
  /\ reti.PC = <<0, 4>>

\* The register that bits 25..24 select.
BitsDName(I) == <<"PC", "IN1", "IN2", "ACC">>[Bits25to24(I) + 1]

\* The registers other than PC and the one named are as before.
SameRegistersBut(D) ==
  \A R \in {"IN1", "IN2", "ACC"} \ {D} : reti'[R] = reti[R]

\* The value that the emulator takes for M[a] in this step: the word of a
\* written address, and for an address never written whatever the step
\* has read there.
WordAt(a) == IF a \in DOMAIN reti.data THEN reti.data[a] ELSE reti'.data[a]

\* No data word, validity bit or data_hi changes; a read of a word that
\* was never written fixes what the word holds.
MemoryUnchanged ==
  /\ \A b \in DOMAIN reti.data : b \in DOMAIN reti'.data /\ reti'.data[b] = reti.data[b]
  /\ shadow' = shadow
  /\ stored' = stored

\* C27: LOAD D i sets D to M[i], LOADIN1 D i to M[(IN1 + i) mod 2^32],
\* LOADIN2 D i to M[(IN2 + i) mod 2^32] and LOADI D i to i with the upper
\* eight bits zero, IN1 and IN2 taken at the start of the step and D
\* selected by bits 25..24; the data memory, the validity bits, data_hi and
\* the registers other than D and PC are unchanged.
C27_LoadSemantics ==
  [][Stepped /\ Bits31to28(Fetched) \in {4, 5, 6, 7} =>
       LET i == Immediate24(Fetched)
           D == BitsDName(Fetched)
           a == CASE Bits31to28(Fetched) = 4 -> i
                  [] Bits31to28(Fetched) = 5 -> WrapSum(reti.IN1, i)
                  [] Bits31to28(Fetched) = 6 -> WrapSum(reti.IN2, i)
                  [] OTHER -> <<0, 0>>
       IN  /\ pc' \in {"run", "halted"}
           /\ Bits31to28(Fetched) = 7 => reti'[D] = i /\ Hi(reti'[D]) < 256
           /\ Bits31to28(Fetched) # 7 => a \in DOMAIN reti'.data /\ reti'[D] = WordAt(a)
           /\ SameRegistersBut(D)
           /\ MemoryUnchanged
           /\ Bits31to28(Fetched) = 7 => reti'.data = reti.data]_vars

\* LOADIN2 IN1 1 with IN2 = 0xffffffff has loaded the word of the address
\* 0, which is 1, into IN1, and ACC is as before.
C27_Witness ==
  /\ Executed
  /\ Bits31to28(row.I) = 6 /\ Immediate24(row.I) = <<0, 1>> /\ Bits25to24(row.I) = 1
  /\ row.IN2 = <<65535, 65535>>
  /\ reti.data[<<0, 0>>] = <<0, 1>>
  /\ reti.IN1 = <<0, 1>>
  /\ row.ACC = <<65535, 65535>> /\ reti.ACC = row.ACC

\* The register that bits 27..26 select.
BitsSName(I) == <<"PC", "IN1", "IN2", "ACC">>[((Hi(I) \div 1024) % 4) + 1]

\* The bit k of a word, and a word r whose every bit is the value of the
\* truth table for the bits of x and y (the table lists the bit for 00, 01,
\* 10 and 11).
BitOf(w, k) == IF k < 16 THEN (Lo(w) \div 2 ^ k) % 2 ELSE (Hi(w) \div 2 ^ (k - 16)) % 2

IsBitwise(table, r, x, y) ==
  \A k \in 0 .. 31 : BitOf(r, k) = table[2 * BitOf(x, k) + BitOf(y, k) + 1]

XorTable == <<0, 1, 1, 0>>

OrTable == <<0, 1, 1, 1>>

AndTable == <<0, 0, 0, 1>>

\* The instructions that write a register: the loads, MOVE and the ten
\* compute instructions.
WritesRegister(I) ==
  \/ Bits31to28(I) \in {4, 5, 6, 7, 11}
  \/ Bits31to26(I) \in LegalComputePrefixes

\* r is the result that the fetched instruction, which writes a register,
\* has in this step, D being the register that bits 25..24 select.
IsResult(r) ==
  LET I == Fetched
      i == Immediate24(I)
      D == reti[BitsDName(I)]
      p == Bits31to26(I)
  IN  CASE Bits31to28(I) = 4 -> r = WordAt(i)
        [] Bits31to28(I) = 5 -> r = WordAt(WrapSum(reti.IN1, i))
        [] Bits31to28(I) = 6 -> r = WordAt(WrapSum(reti.IN2, i))
        [] Bits31to28(I) = 7 -> r = i
        [] Bits31to28(I) = 11 -> r = reti[BitsSName(I)]
        [] p = 2 -> IsWrapDifference(r, D, Operand(i))
        [] p = 3 -> r = WrapSum(D, Operand(i))
        [] p = 4 -> IsBitwise(XorTable, r, D, i)
        [] p = 5 -> IsBitwise(OrTable, r, D, i)
        [] p = 6 -> IsBitwise(AndTable, r, D, i)
        [] p = 10 -> IsWrapDifference(r, D, WordAt(i))
        [] p = 11 -> r = WrapSum(D, WordAt(i))
        [] p = 12 -> IsBitwise(XorTable, r, D, WordAt(i))
        [] p = 13 -> IsBitwise(OrTable, r, D, WordAt(i))
        [] p = 14 -> IsBitwise(AndTable, r, D, WordAt(i))

\* C28: MOVE S D sets D to the value that the register S had at the start
\* of the step (for S = PC the address of the MOVE itself); for every
\* instruction that writes a register (the loads, MOVE and the ten compute
\* instructions) whose D selects PC, the PC after the step is the written
\* result and not PC + 1, and for any other D it is PC + 1.
C28_MoveAndPCDestination ==
  [][Stepped /\ WritesRegister(Fetched) =>
       /\ pc' \in {"run", "halted"}
       /\ Bits31to28(Fetched) = 11 =>
            /\ reti'[BitsDName(Fetched)] = reti[BitsSName(Fetched)]
            /\ SameRegistersBut(BitsDName(Fetched))
            /\ MemoryUnchanged /\ reti'.data = reti.data
       /\ IF BitsDName(Fetched) = "PC" THEN IsResult(reti'.PC)
          ELSE /\ reti'.PC = WrapSum(reti.PC, <<0, 1>>)
               /\ IsResult(reti'[BitsDName(Fetched)])]_vars

\* MOVE PC PC at the address 3 has left PC at 3, and the emulator halted.
C28_Witness ==
  /\ Executed
  /\ Bits31to28(row.I) = 11 /\ BitsSName(row.I) = "PC" /\ BitsDName(row.I) = "PC"
  /\ row.PC = <<0, 3>>
  /\ reti.PC = <<0, 3>>
  /\ pc = "halted"

\* The truth table of a bitwise instruction.
TableOf(I) ==
  CASE Bits31to26(I) \in {4, 12} -> XorTable
    [] Bits31to26(I) \in {5, 13} -> OrTable
    [] Bits31to26(I) \in {6, 14} -> AndTable

\* C29: OPLUSI, ORI and ANDI combine D with the immediate extended with
\* zeros to 32 bits (XOR, OR, AND), so that OPLUSI and ORI leave bits 31..24
\* of D as they are and ANDI clears them; OPLUS, OR and AND combine D with
\* the data word M[i] at the unsigned address i; in both forms only D (and
\* PC) changes.
C29_BitwiseSemantics ==
  [][Stepped /\ Bits31to26(Fetched) \in {4, 5, 6, 12, 13, 14} =>
       LET I == Fetched
           i == Immediate24(I)
           D == BitsDName(I)
           operand == IF Bits31to26(I) < 8 THEN i ELSE WordAt(i)
       IN  /\ pc' \in {"run", "halted"}
           /\ Hi(i) < 256
           /\ IsBitwise(TableOf(I), reti'[D], reti[D], operand)
           /\ Bits31to26(I) \in {4, 5} => Hi(reti'[D]) \div 256 = Hi(reti[D]) \div 256
           /\ Bits31to26(I) = 6 => Hi(reti'[D]) \div 256 = 0
           /\ SameRegistersBut(D)
           /\ D # "PC" => reti'.PC = WrapSum(reti.PC, <<0, 1>>)
           /\ MemoryUnchanged
           /\ Bits31to26(I) < 8 => reti'.data = reti.data]_vars

\* ANDI ACC 0xffffff on ACC = 0xffffffff has left 0x00ffffff.
C29_Witness ==
  /\ Executed
  /\ Bits31to26(row.I) = 6 /\ Immediate24(row.I) = <<255, 65535>>
  /\ BitsDName(row.I) = "ACC"
  /\ row.ACC = <<65535, 65535>> /\ reti.ACC = <<255, 65535>>

\* The PC after a step that fetched I (C4 and C28): the written result if
\* a register is written and D is PC, the target of a taken jump, PC + 1
\* otherwise.
IsNextPC(next) ==
  IF WritesRegister(Fetched) /\ BitsDName(Fetched) = "PC" THEN IsResult(next)
  ELSE IF Bits31to27(Fetched) \in 25 .. 31 /\ JumpCondition(Fetched, reti.ACC)
    THEN next = WrapSum(reti.PC, Operand(Immediate24(Fetched)))
  ELSE next = WrapSum(reti.PC, <<0, 1>>)

\* C30: in every step at most one of a register write and a memory write is
\* performed (the assertion '!D_write || !M_write' never fails), the words
\* of the jump class and the unrecognised words perform neither, and the
\* PC has its next value after the write: it is what the step assigned to
\* PC last.
C30_WriteExclusivity ==
  [][Stepped =>
       LET I == Fetched
       IN  /\ ~(D_write(I) /\ M_write(I))
           /\ D_write(I) <=> WritesRegister(I)
           /\ M_write(I) <=> Bits31to28(I) \in {8, 9, 10}
           /\ Hi(I) >= 49152 \/ IllegalWord(I) => ~D_write(I) /\ ~M_write(I)
           /\ ~WritesRegister(I) => SameRegistersBut("PC")
           /\ Bits31to28(I) \notin {8, 9, 10} => MemoryUnchanged
           /\ ~WritesRegister(I) /\ Bits31to28(I) \notin {8, 9, 10} => reti'.data = reti.data
           /\ pc' \in {"run", "halted"}
           /\ IsNextPC(reti'.PC)]_vars

\* The unrecognised word 0x00000001 at the address 3 was executed: nothing
\* but the PC has changed.
C30_Witness ==
  /\ Executed
  /\ row.I = <<0, 1>>
  /\ row.PC = <<0, 3>> /\ reti.PC = <<0, 4>>
  /\ reti.IN1 = row.IN1 /\ reti.IN2 = row.IN2 /\ reti.ACC = row.ACC
  /\ stored = EmptyMemory

(***************************************************************************)
(* C31. data_hi is a tight exclusive bound: every valid address is below   *)
(* data_hi, and data_hi is 0 or data_hi - 1 is a valid address; after the  *)
(* data file of L_d words was read the valid addresses are exactly         *)
(* 0 .. L_d - 1 and data_hi is L_d.                                        *)
(***************************************************************************)
\* The value one below a nonzero bound.
Below(hi) == IF Lo(hi) = 0 THEN <<Hi(hi) - 1, Half - 1>> ELSE <<Hi(hi), Lo(hi) - 1>>

\* The files are read and no instruction was executed yet.
FilesRead == pc = "run" /\ steps = 0

C31_TightDataBound ==
  /\ \A a \in shadow.valid :
       Hi(a) < Hi(shadow.data) \/ (Hi(a) = Hi(shadow.data) /\ Lo(a) < Lo(shadow.data))
  /\ shadow.data = <<0, 0>> \/ Below(shadow.data) \in shadow.valid
  /\ FilesRead =>
       /\ shadow.valid = {<<0, k>> : k \in 0 .. Len(data_file) - 1}
       /\ shadow.data = <<0, Len(data_file)>>

\* After a data file of three words was read, a store to the address 4 has
\* raised data_hi to 5 and left the address 3 invalid below it.
C31_Witness ==
  /\ Executed
  /\ Len(data_file) = 3
  /\ shadow.valid = {<<0, 0>>, <<0, 1>>, <<0, 2>>, <<0, 4>>}
  /\ shadow.data = <<0, 5>>

(***************************************************************************)
(* C32. Decoder agreement: for every word the emulator executes, the text  *)
(* that disassemble_reti_code prints for it names the operation the        *)
(* emulator executes: the same instruction, S from bits 27..26, D from     *)
(* bits 25..24, and the immediate read with the same signedness.           *)
(***************************************************************************)
\* The words of a text: its parts between single spaces.
RECURSIVE WordsOf(_)
WordsOf(text) ==
  IF text = <<>> THEN <<<<>>>>
  ELSE LET rest == WordsOf(Tail(text))
       IN  IF Head(text) = " " THEN <<<<>>>> \o rest
           ELSE <<<<Head(text)>> \o Head(rest)>> \o Tail(rest)

\* The number a sequence of digits denotes in a base.
RECURSIVE ValueOf(_, _)
ValueOf(digits, base) ==
  IF digits = <<>> THEN 0
  ELSE ValueOf(SubSeq(digits, 1, Len(digits) - 1), base) * base
         + IndexOf(HexDigits, digits[Len(digits)]) - 1

\* The number that a printed immediate denotes: "0x" and hexadecimal digits,
\* or decimal digits with an optional '-'.
Denoted(text) ==
  IF Len(text) > 2 /\ SubSeq(text, 1, 2) = <<"0", "x">>
    THEN ValueOf(SubSeq(text, 3, Len(text)), 16)
  ELSE IF text # <<>> /\ Head(text) = "-" THEN 0 - ValueOf(Tail(text), 10)
  ELSE ValueOf(text, 10)

\* The text printed for the executed word, in words.
Disassembled == WordsOf(CString(disassemble_reti_code(row.I, NDEBUG).str))

\* The immediate as the emulator reads it for the executed word: sign
\* extended for SUBI, ADDI and the jumps, unsigned for everything else.
ExecutedImmediate ==
  LET i == (Hi(row.I) % 256) * 65536 + Lo(row.I)
  IN  IF instruction(row.I) \in {"SUBI", "ADDI"} \/ I31to30(row.I) = 3
        THEN (IF i >= 2 ^ 23 THEN i - 2 ^ 24 ELSE i)
        ELSE i

\* A word that selects no case of the emulator's switches has no mnemonic.
SameInstruction ==
  instruction(row.I) # "none" => Disassembled[1] = Characters(instruction(row.I))

SameRegisters ==
  IF instruction(row.I) = "MOVE"
    THEN /\ Len(Disassembled) = 3
         /\ Disassembled[2] = Characters(S_symbol(row.I))
         /\ Disassembled[3] = Characters(D_symbol(row.I))
    ELSE D_write(row.I) =>
           /\ Len(Disassembled) = 3
           /\ Disassembled[2] = Characters(D_symbol(row.I))

SameImmediate ==
  instruction(row.I) \notin {"MOVE", "none"} =>
    /\ Len(Disassembled) >= 2
    /\ Denoted(Disassembled[Len(Disassembled)]) = ExecutedImmediate

C32_DecoderAgreement ==
  Executed => SameInstruction /\ SameRegisters /\ SameImmediate

\* What holds of it: the instruction agrees for the loads, STOREIN2, the
\* jumps but JUMP<= and the compute instructions but OPLUSI; the register
\* agrees where bits 27..26 equal bits 25..24; the immediate agrees for the
\* loads, the stores, the computations with an immediate and the jumps but
\* JUMP=.
C32_AsIs ==
  Executed =>
    /\ (/\ instruction(row.I) \notin {"STORE", "STOREIN1", "MOVE", "JUMP<=", "OPLUSI", "none"}
        /\ I27to26(row.I) = I25to24(row.I)) => (SameInstruction /\ SameRegisters)
    /\ instruction(row.I) \notin
         {"MOVE", "none", "SUB", "ADD", "JUMP=", "STORE", "STOREIN1"} => SameImmediate

(***************************************************************************)
(* C33. Assembler output is a prefix of whole words: at every point of a   *)
(* run the bytes written to the code output are exactly the little-endian  *)
(* words of the instruction lines completely parsed so far, in input       *)
(* order; after a parse error the output holds one word for each           *)
(* instruction line before the erroneous line and no byte of that line.    *)
(***************************************************************************)
\* The place where the line that ends at the new-line p starts.
RECURSIVE LineStart(_, _)
LineStart(s, p) == IF p = 1 \/ Ch(s, p - 1) = "\n" THEN p ELSE LineStart(s, p - 1)

\* The first place from q on that holds neither a space nor a tab.
RECURSIVE FirstMark(_, _)
FirstMark(s, q) == IF Ch(s, q) \in {" ", "\t"} THEN FirstMark(s, q + 1) ELSE q

\* The new-lines among the first n characters that end an instruction line:
\* a line that is neither empty nor a comment.
InstructionLineEnds(s, n) ==
  {p \in 1 .. n : /\ p <= Len(s)
                  /\ s[p] = "\n"
                  /\ Ch(s, FirstMark(s, LineStart(s, p))) \notin {";", "\n"}}

\* The instructions of the inputs, each with the bytes of its word in the
\* instruction table, lowest byte first.
LineTable ==
  {<<Characters(HeadText(h) \o " " \o i), ImmediateBytes(i) \o <<TopByte(h)>>>> :
     h \in OperandHeads, i \in InRangeTexts}
    \cup {<<Characters("MOVE " \o S \o " " \o D),
             <<0, 0, 0, 176 + 4 * RegisterBits(S) + RegisterBits(D)>>>> :
             S \in Registers, D \in Registers}
    \cup {<<Characters("NOP"), <<0, 0, 0, 192>>>>,
          <<Characters("JUMP 1"), <<1, 0, 0, 248>>>>,
          <<Characters("JUMP>= 3"), <<3, 0, 0, 216>>>>,
          <<Characters("OR IN2 255"), <<255, 0, 0, 54>>>>,
          <<Characters("LOADI ACC 0x1f"), <<31, 0, 0, 115>>>>,
          <<Characters("LOADI ACC 0x1F"), <<31, 0, 0, 115>>>>,
          <<Characters("LOADI ACC 0x"), <<0, 0, 0, 115>>>>,
          <<Characters("LOADI ACC 1x1f"), <<31, 1, 0, 115>>>>,
          <<Characters("LOADI ACC 9x"), <<9, 0, 0, 115>>>>,
          <<Characters("LOADI ACC -1x10"), <<240, 254, 255, 115>>>>}

\* The k-th of the instruction lines that end at the places 'ends'.
EndOfLine(ends, k) == CHOOSE p \in ends : Cardinality({q \in ends : q <= p}) = k

\* The line from q on holds the instruction and then white space, a comment
\* or the new-line.
HoldsInstruction(s, q, text) ==
  /\ q + Len(text) - 1 <= Len(s)
  /\ SubSeq(s, q, q + Len(text) - 1) = text
  /\ Ch(s, q + Len(text)) \in {" ", "\t", ";", "\n"}

\* The output is one word for each of these lines, in their order.
WordsOfEnds(s, ends) ==
  /\ Len(output) = 4 * Cardinality(ends)
  /\ \A k \in 1 .. Cardinality(ends) :
       \E l \in LineTable :
         /\ HoldsInstruction(s, FirstMark(s, LineStart(s, EndOfLine(ends, k))), l[1])
         /\ l[2] = SubSeq(output, 4 * k - 3, 4 * k)

C33_WholeWordPrefix ==
  FirstRun("asreti") =>
    IF exit \in {"running", "0"}
      THEN WordsOfEnds(read_char(input), InstructionLineEnds(read_char(input), offset))
      ELSE WordsOfEnds(read_char(input), InstructionLineEnds(read_char(input), offset - 1))

\* What holds of it: the same in every run that no failed assertion ends.
C33_AsIs == (FirstRun("asreti") /\ exit # "SIGABRT") => C33_WholeWordPrefix

(***************************************************************************)
(* C34. Token separation: a line is accepted only if exactly one space     *)
(* separates the mnemonic from its first operand and each operand from the *)
(* next (no separator, two or more spaces or a tab between two tokens is a *)
(* parse error), and every line of well-formed tokens separated by one     *)
(* space is accepted, for each of the registers PC, IN1, IN2 and ACC as    *)
(* source and as destination.                                              *)
(***************************************************************************)
\* The run on a line whose tokens are not separated by one space each.
RunOnSeparated ==
  /\ FirstRun("asreti")
  /\ Ended
  /\ \E l \in SeparatedLines, e \in {"\n", " \n"} : input = Characters(l \o e)

\* The run on a line with a register in each position, separated by one
\* space each.
RegisterLines ==
  {"MOVE " \o S \o " " \o D : S \in Registers, D \in Registers}
    \cup {"LOADI " \o D \o " 42" : D \in Registers}

RunOnRegisters ==
  /\ FirstRun("asreti")
  /\ Ended
  /\ \E l \in RegisterLines, t \in Terminators : input = Characters(l \o t)

\* A parse error was reported and nothing was written.
Rejected == exit = "1" /\ output = <<>> /\ Len(diagnostic) = 1

C34_TokenSeparation ==
  /\ RunOnSeparated => Rejected
  /\ RunOnRegisters => (exit = "0" /\ Len(output) = 4)

\* What holds of it: the first half, and the second half in src/asreti.c.
C34_AsIs ==
  /\ RunOnSeparated => Rejected
  /\ (RunOnRegisters /\ revision = "asreti.c") => (exit = "0" /\ Len(output) = 4)

(***************************************************************************)
(* C35. Hexadecimal immediates: an immediate is read as hexadecimal        *)
(* exactly when its first digit is 0 and the next character is x; then a   *)
(* nonempty sequence of hexadecimal digits follows, with the bounds of the *)
(* decimal notation (0x1f encodes 31); a digit other than 0 followed by x, *)
(* and 0x followed by no hexadecimal digit, are invalid immediates.        *)
(***************************************************************************)
\* The run on 'LOADI ACC' with the immediate i has ended.
RunOnImmediate(i) ==
  FirstRun("asreti") /\ Ended /\ input = Characters("LOADI ACC " \o i \o "\t\n")

\* The line was assembled to LOADI ACC with these three bytes.
AssembledTo(low) == exit = "0" /\ output = low \o <<115>>

InvalidImmediate ==
  exit = "1" /\ output = <<>> /\ Len(diagnostic) = 1
    /\ diagnostic[1].text \in {"invalid immediate", "maximum immediate exceeded"}

C35_HexadecimalImmediates ==
  /\ RunOnImmediate("0x1f") => AssembledTo(<<31, 0, 0>>)
  /\ RunOnImmediate("0x1F") => AssembledTo(<<31, 0, 0>>)
  /\ RunOnImmediate("0xffffff") => AssembledTo(<<255, 255, 255>>)
  /\ RunOnImmediate("0x1000000") => InvalidImmediate
  /\ RunOnImmediate("1x1f") => InvalidImmediate
  /\ RunOnImmediate("9x") => InvalidImmediate
  /\ RunOnImmediate("0x") => InvalidImmediate
  /\ RunOnImmediate("0xg") => InvalidImmediate

\* What holds of it: src/asreti.c rejects every immediate with an 'x';
\* part_002 reads hexadecimal digits after any first digit and an 'x', and
\* none is as good as one: 1x1f is 0x11f, 9x is 9 and 0x is 0.
C35_AsIs ==
  /\ revision = "asreti.c" =>
       \A i \in XTexts \cup {"0xffffff", "0x1000000"} : RunOnImmediate(i) => InvalidImmediate
  /\ revision = "part_002" =>
       /\ RunOnImmediate("0x1f") => AssembledTo(<<31, 0, 0>>)
       /\ RunOnImmediate("0x1F") => AssembledTo(<<31, 0, 0>>)
       /\ RunOnImmediate("0xffffff") => AssembledTo(<<255, 255, 255>>)
       /\ RunOnImmediate("0x1000000") => InvalidImmediate
       /\ RunOnImmediate("1x1f") => AssembledTo(<<31, 1, 0>>)
       /\ RunOnImmediate("9x") => AssembledTo(<<9, 0, 0>>)
       /\ RunOnImmediate("0x") => AssembledTo(<<0, 0, 0>>)
       /\ RunOnImmediate("-1x10") => AssembledTo(<<240, 254, 255>>)
       /\ RunOnImmediate("0xg") => InvalidImmediate
       /\ RunOnImmediate("12x") => InvalidImmediate

(***************************************************************************)
(* C36. Error line attribution: the line number of every parse error of    *)
(* the assembler is the number, from 1, of the input line on which the     *)
(* offending character (or the missing token) lies, for every kind of      *)
(* error, also for an empty line, a missing new-line, the end of the file  *)
(* inside a comment and a carriage-return without new-line, wherever on    *)
(* the line.                                                               *)
(***************************************************************************)
\* The line of the p-th character read: one more than the new-lines before.
LineOf(s, p) == 1 + Cardinality({k \in 1 .. p - 1 : Ch(s, k) = "\n"})

\* A parse error was reported; the character read last is the offending one.
ParseErrorReported == FirstRun("asreti") /\ exit = "1" /\ Len(diagnostic) = 1

C36_ErrorLineAttribution ==
  ParseErrorReported => diagnostic[1].line = LineOf(read_char(input), offset)

\* What holds of it: the same unless the offending character is a
\* carriage-return that follows a new-line directly; the line reported for
\* that is the line before.
C36_AsIs ==
  ParseErrorReported =>
    IF /\ Ch(read_char(input), offset) = "\r"
       /\ Ch(read_char(input), offset - 1) = "\n"
      THEN diagnostic[1].line = LineOf(read_char(input), offset) - 1
      ELSE diagnostic[1].line = LineOf(read_char(input), offset)

(***************************************************************************)
(* C37. Irrelevant fields are zero: every word the assembler emits holds   *)
(* only the opcode prefix and the fields its mnemonic takes: the words of  *)
(* the loads have bits 27..26 = 0, the words of STORE, STOREIN1 and        *)
(* STOREIN2 have bits 27..24 = 0, the words of MOVE have bits 23..0 = 0    *)
(* with S in bits 27..26 and D in bits 25..24, the words of the jumps      *)
(* have bits 26..24 = 0, and the word of NOP is 0xC0000000.                *)
(***************************************************************************)
\* The characters from q up to the next space, tab, semicolon or new-line.
RECURSIVE TokenAt(_, _)
TokenAt(s, q) ==
  IF Ch(s, q) \in {" ", "\t", ";", "\n", EOF} THEN <<>> ELSE <<s[q]>> \o TokenAt(s, q + 1)

\* The mnemonic of the k-th instruction line of the input.
MnemonicOfLine(s, k) ==
  TokenAt(s, FirstMark(s, LineStart(s, EndOfLine(InstructionLineEnds(s, Len(s)), k))))

\* The k-th word of the output, as its four bytes from the top one down.
EmittedWord(k) == <<output[4 * k], output[4 * k - 1], output[4 * k - 2], output[4 * k - 3]>>

\* The fields of a word that the mnemonic m does not take are zero.
OnlyItsFields(m, w) ==
  /\ m \in {Characters("LOAD"), Characters("LOADIN1"), Characters("LOADIN2"),
            Characters("LOADI")} =>
       w[1] \div 64 = 1 /\ (w[1] \div 4) % 4 = 0
  /\ m \in {Characters("STORE"), Characters("STOREIN1"), Characters("STOREIN2")} =>
       w[1] \div 64 = 2 /\ (w[1] \div 16) % 4 # 3 /\ w[1] % 16 = 0
  /\ m = Characters("MOVE") => w[1] \div 16 = 11 /\ w[2] = 0 /\ w[3] = 0 /\ w[4] = 0
  /\ (Len(m) >= 4 /\ SubSeq(m, 1, 4) = Characters("JUMP")) =>
       w[1] \div 64 = 3 /\ w[1] % 8 = 0
  /\ m = Characters("NOP") => w = <<192, 0, 0, 0>>

\* The place of the token after the token at q.
PlaceAfter(s, q) == FirstMark(s, q + Len(TokenAt(s, q)))

\* The place where the k-th instruction line of the input starts.
PlaceOfLine(s, k) == FirstMark(s, LineStart(s, EndOfLine(InstructionLineEnds(s, Len(s)), k)))

\* The registers of a MOVE are in bits 27..26 and bits 25..24 of its word.
RegistersInPlace(s, k, w) ==
  MnemonicOfLine(s, k) = Characters("MOVE") =>
    \E S \in Registers, D \in Registers :
      /\ TokenAt(s, PlaceAfter(s, PlaceOfLine(s, k))) = Characters(S)
      /\ TokenAt(s, PlaceAfter(s, PlaceAfter(s, PlaceOfLine(s, k)))) = Characters(D)
      /\ (w[1] \div 4) % 4 = RegisterBits(S)
      /\ w[1] % 4 = RegisterBits(D)

C37_IrrelevantFieldsZero ==
  (FirstRun("asreti") /\ Len(output) > 0) =>
    \A k \in 1 .. Len(output) \div 4 :
      /\ OnlyItsFields(MnemonicOfLine(read_char(input), k), EmittedWord(k))
      /\ RegistersInPlace(read_char(input), k, EmittedWord(k))

\* Words of a load, a store, a MOVE, a jump and NOP were emitted.
C37_Witness ==
  /\ FirstRun("asreti")
  /\ exit = "0"
  /\ \E k \in 1 .. Len(output) \div 4 :
       /\ MnemonicOfLine(read_char(input), k) = Characters("MOVE")
       /\ EmittedWord(k) = <<182, 0, 0, 0>>

(***************************************************************************)
(* The assembler on lines with one immediate each: numbers below, at and   *)
(* above the two limits, with leading zeros, in both notations.            *)
(***************************************************************************)
MaxZeros == 2

Zeros(n) == [k \in 1 .. n |-> "0"]

DecimalValues ==
  {0, 7, 42, 838860, 838861, 1677721, 1677722, 8388607, 8388608, 8388609, 16777215,
   16777216, 16777219, 83886080, 167772150, 2147483647}

\* Numbers from 2^32 on: 2^32, 2^32 + 42 and 2^32 + 0xffffff in base 10,
\* 2^32 and 2^36 + 0xffffff in base 16.
GreatDecimals == {"4294967296", "4294967338", "4311744511"}

GreatHexadecimals == {"100000000", "1000ffffff"}

\* Numbers in base 16 whose first digit stands before the 'x'.
LeadTexts == {<<"8x00000", 8388608>>, <<"8x00001", 8388609>>, <<"7xfffff", 8388607>>, <<"1x1f", 287>>}

\* An immediate: its sign, its characters after the sign, its base and its
\* value ('great' if the value is 2^32 or more).
ImmediateCase(sign, text, base, value, great) ==
  [sign |-> sign, text |-> text, base |-> base, value |-> value, great |-> great]

ImmediateCases ==
  {ImmediateCase(sg, Zeros(z) \o Unsigned(v), 10, v, FALSE) :
     sg \in {<<>>, <<"-">>}, z \in 0 .. MaxZeros, v \in DecimalValues}
    \cup {ImmediateCase(sg, Zeros(z) \o Characters(g), 10, 0, TRUE) :
            sg \in {<<>>, <<"-">>}, z \in 0 .. MaxZeros, g \in GreatDecimals}
    \cup {ImmediateCase(sg, <<"0", "x">> \o Zeros(z) \o Hexadecimal(v), 16, v, FALSE) :
            sg \in {<<>>, <<"-">>}, z \in 0 .. MaxZeros, v \in DecimalValues}
    \cup {ImmediateCase(sg, <<"0", "x">> \o Zeros(z) \o Characters(g), 16, 0, TRUE) :
            sg \in {<<>>, <<"-">>}, z \in 0 .. MaxZeros, g \in GreatHexadecimals}
    \cup {ImmediateCase(sg, Characters(l[1]), 16, l[2], FALSE) :
            sg \in {<<>>, <<"-">>}, l \in LeadTexts}

ImmediateLine(c) == Characters("LOADI ACC ") \o c.sign \o c.text \o <<"\t", "\n">>

InitImmediate ==
  /\ NoEmulator
  /\ revision \in {"asreti.c", "part_002"}
  /\ NDEBUG \in BOOLEAN
  /\ tool = "asreti"
  /\ input \in {ImmediateLine(c) : c \in ImmediateCases}
  /\ offset = 0
  /\ lineno = 1
  /\ last_read_char = "none"
  /\ output = <<>>
  /\ instruction_buffer = <<>>
  /\ exit = "running"
  /\ diagnostic = <<>>
  /\ piped = <<>>
  /\ quiz = NoQuiz

NextImmediate == Assemble

SpecImmediate == InitImmediate /\ [][NextImmediate]_vars

(***************************************************************************)
(* C38. Overflow-free digit accumulation: while an immediate of any length *)
(* (leading zeros included) is parsed in base 10 or 16 against the limit   *)
(* 0xFFFFFF or 0x800000, the accumulator never exceeds the limit after any *)
(* digit and no 32-bit product or sum wraps, so that the assertions        *)
(* 'i <= max_immediate' and 'i <= 0xffffff' hold where they are reached,   *)
(* and a digit sequence is rejected exactly when its value exceeds the     *)
(* limit.                                                                  *)
(***************************************************************************)
\* The place of the first digit, the limit and the digit before the loop.
FirstDigit(c) == 11 + Len(c.sign)

LimitOf(c) == IF c.sign = <<>> THEN 16777215 ELSE 8388608

LoopStart(c) == IF c.base = 16 THEN FirstDigit(c) + 2 ELSE FirstDigit(c) + 1

\* The numbers the loop forms from the q-th character on, i being the
\* number read so far: the product if the first comparison lets it be
\* formed, the sum if the second does.
RECURSIVE Formed(_, _, _, _, _)
Formed(s, q, i, max_immediate, base) ==
  LET digit == Digit(Ch(s, q), base)
  IN  IF digit < 0 \/ max_immediate \div base < i THEN {i}
      ELSE IF Exceeded(i, digit, max_immediate, base) THEN {i, i * base}
      ELSE {i, i * base, i * base + digit}
             \cup Formed(s, q + 1, i * base + digit, max_immediate, base)

FormedOf(c) ==
  Formed(ImmediateLine(c), LoopStart(c), hexdigit(c.text[1]), LimitOf(c), c.base)

\* The number the loop ends with, if it ends with one.
ResultOf(c) ==
  Digits(ImmediateLine(c), LoopStart(c), hexdigit(c.text[1]), LimitOf(c), c.base, "exceeded")

\* A number that fits an unsigned of 32 bits.
NoWrap(v) == v >= 0 /\ v \div Half < Half

\* The immediate reaches the loop over the digits in this revision: the
\* first digit after a '-' is not 0, and src/asreti.c has base 10 only.
Accumulates(c) ==
  /\ c.base = 16 => revision = "part_002"
  /\ c.sign = <<"-">> => c.text[1] # "0"

Exceeding(c) == c.great \/ c.value > LimitOf(c)

\* The bytes of the word of 'LOADI ACC' with the immediate.
WordOfCase(c) ==
  LET i == IF c.sign = <<>> THEN c.value ELSE Negated(c.value)
  IN  <<i % 256, (i \div 256) % 256, i \div 65536, 115>>

\* No number formed exceeds the limit or wraps, and the assertions hold.
WithinLimit(c) ==
  /\ \A v \in FormedOf(c) : NoWrap(v) /\ v <= LimitOf(c)
  /\ ResultOf(c).kind = "ok" =>
       /\ ResultOf(c).code <= LimitOf(c)
       /\ (IF c.sign = <<>> THEN ResultOf(c).code ELSE Negated(ResultOf(c).code)) <= 16777215

\* The run is over: the immediate was rejected exactly if it exceeds.
RejectedIfExceeding(c) ==
  Ended =>
    IF Exceeding(c)
      THEN exit = "1" /\ output = <<>> /\ Digit(Ch(input, offset), c.base) >= 0
      ELSE exit = "0" /\ output = WordOfCase(c)

MaxBinaryWords == 2

\* The words of the files, lowest byte first, and the bytes after the last
\* whole word.
BinaryWords ==
  {<<42, 0, 0, 115>>, <<0, 0, 0, 0>>, <<239, 190, 173, 222>>, <<1, 0, 0, 0>>,
   <<255, 255, 255, 255>>}

RECURSIVE WholeWords(_)
WholeWords(n) ==
  IF n = 0 THEN {<<>>} ELSE {f \o w : f \in WholeWords(n - 1), w \in BinaryWords}

PartialGroups == {<<>>, <<0>>, <<255>>, <<42, 0>>, <<10, 13>>, <<0, 0, 0>>, <<42, 0, 115>>}

BinaryFiles ==
  {f \o g : f \in UNION {WholeWords(n) : n \in 0 .. MaxBinaryWords}, g \in PartialGroups}

\* A decbin that takes the first byte of a word as its highest.
decbin_read_word_highest_first(file, byteno) ==
  IF byteno = Len(file) THEN [kind |-> "DONE", byteno |-> byteno, word |-> Zero]
  ELSE IF byteno + 4 > Len(file)
    THEN [kind |-> "error", byteno |-> Len(file), word |-> Zero]
  ELSE [kind |-> "word", byteno |-> byteno + 4,
        word |-> <<file[byteno + 1] * 256 + file[byteno + 2],
                   file[byteno + 3] * 256 + file[byteno + 4]>>]

\* read_word (lines 67-78) after 'byteno' bytes were read: no word at the
\* end of the file, an error if one to three bytes are left, else the word
\* of the next four bytes, the first of them the lowest.
decbin_read_word(file, byteno) ==
  IF byteno = Len(file) THEN [kind |-> "DONE", byteno |-> byteno, word |-> Zero]
  ELSE IF byteno + 4 > Len(file)
    THEN [kind |-> "error", byteno |-> Len(file), word |-> Zero]
  ELSE [kind |-> "word", byteno |-> byteno + 4,
        word |-> <<file[byteno + 4] * 256 + file[byteno + 3],
                   file[byteno + 2] * 256 + file[byteno + 1]>>]

\* 'printf("%08x %08x\n", (unsigned)words++, word)'
PrintedLine(words, word) == Hex8(<<0, words>>) \o <<" ">> \o Hex8(word) \o <<"\n">>

\* 'decbin: parse error: at word <wordno> byte <byteno> ...: incomplete word'
IncompleteWord(wordno, byteno) ==
  <<[text |-> "incomplete word", word |-> wordno, byte |-> byteno]>>

\* One iteration of the loop of main (lines 123-129); 'words' stays below
\* UINT_MAX for the files here.  'exit' flushes what was printed.
DecodeBinary ==
  /\ tool = "decbin"
  /\ exit = "running"
  /\ \E r \in {decbin_read_word(input, offset)} :
       /\ offset' = r.byteno
       /\ output' = IF r.kind = "word" THEN output \o PrintedLine(offset \div 4, r.word)
                    ELSE output
       /\ exit' = CASE r.kind = "DONE" -> "0"
                    [] r.kind = "error" -> "1"
                    [] OTHER -> "running"
       /\ diagnostic' = IF r.kind = "error" THEN IncompleteWord(offset \div 4, r.byteno)
                        ELSE <<>>
  /\ UNCHANGED <<revision, NDEBUG, tool, input, lineno, last_read_char, instruction_buffer,
                 piped, quiz>>
  /\ UNCHANGED emulator

\* 'decbin | enchex': enchex reads what decbin printed.
PipeCodec ==
  /\ tool = "decbin"
  /\ exit = "0"
  /\ piped = <<>>
  /\ tool' = "enchex"
  /\ input' = output
  /\ piped' = Append(piped, [tool |-> tool, input |-> input, output |-> output])
  /\ offset' = 0
  /\ lineno' = 1
  /\ last_read_char' = "none"
  /\ output' = <<>>
  /\ instruction_buffer' = <<>>
  /\ exit' = "running"
  /\ diagnostic' = <<>>
  /\ UNCHANGED <<revision, NDEBUG, quiz>>
  /\ UNCHANGED emulator

InitRoundTrip ==
  /\ NoEmulator
  /\ revision = "asreti.c"
  /\ NDEBUG = TRUE
  /\ tool = "decbin"
  /\ input \in BinaryFiles
  /\ offset = 0
  /\ lineno = 1
  /\ last_read_char = "none"
  /\ output = <<>>
  /\ instruction_buffer = <<>>
  /\ exit = "running"
  /\ diagnostic = <<>>
  /\ piped = <<>>
  /\ quiz = NoQuiz

NextRoundTrip == DecodeBinary \/ PipeCodec \/ Encode

SpecRoundTrip == InitRoundTrip /\ [][NextRoundTrip]_vars

(***************************************************************************)
(* C39. Binary/hex round trip: for every binary file B whose length is a   *)
(* multiple of 4, the lines decbin prints for B, an index and a word of    *)
(* eight hexadecimal digits each for each word in order, fed to enchex     *)
(* give B again byte for byte; a file with a partial group of 1 to 3 bytes *)
(* at its end is rejected by decbin with a parse error after the complete  *)
(* words were printed.                                                     *)
(***************************************************************************)
\* Two hexadecimal digits of a byte and eight of a small index.
TwoDigits(b) == <<HexDigits[(b \div 16) + 1], HexDigits[(b % 16) + 1]>>

Hexadecimal8(n) == [k \in 1 .. 8 - Len(Hexadecimal(n)) |-> "0"] \o Hexadecimal(n)

\* The lines for the first n words of the file B, from its bytes alone.
RECURSIVE LinesOf(_, _)
LinesOf(B, n) ==
  IF n = 0 THEN <<>>
  ELSE LinesOf(B, n - 1)
         \o Hexadecimal8(n - 1) \o <<" ">>
         \o TwoDigits(B[4 * n]) \o TwoDigits(B[4 * n - 1])
         \o TwoDigits(B[4 * n - 2]) \o TwoDigits(B[4 * n - 3]) \o <<"\n">>

C39_RoundTrip ==
  /\ (tool = "decbin" /\ exit = "0") =>
       Len(input) % 4 = 0 /\ output = LinesOf(input, Len(input) \div 4)
  /\ (tool = "decbin" /\ Ended /\ Len(input) % 4 # 0) =>
       /\ exit = "1"
       /\ diagnostic = IncompleteWord(Len(input) \div 4, Len(input))
       /\ output = LinesOf(input, Len(input) \div 4)
  /\ (tool = "decbin" /\ Ended /\ Len(input) % 4 = 0) => exit = "0"
  /\ (tool = "enchex" /\ Len(piped) = 1 /\ Ended) =>
       exit = "0" /\ output = piped[1].input

\* A file of whole words came back from enchex, and a file with a partial
\* group was rejected after its words were printed.
C39_Witness ==
  /\ tool = "enchex"
  /\ exit = "0"
  /\ Len(piped) = 1
  /\ Len(output) = 4 * MaxBinaryWords
  /\ output[5] = 239

C39_WitnessPartial ==
  /\ tool = "decbin"
  /\ exit = "1"
  /\ Len(input) = 4 * MaxBinaryWords + 3
  /\ Len(output) = 18 * MaxBinaryWords

====
